---- MODULE Spec2Model ----
(***************************************************************************)
(* Model of the generic resource (GRES) driver, gres.c.                    *)
(*                                                                         *)
(* The state machines below share the variables:                           *)
(*   Spec      the per-node ledger: init from slurm.conf, node             *)
(*             registration (unpack + validate), reconfigure, dealloc_all, *)
(*             interleaved with job allocations;                           *)
(*   SpecFit   the fit engine: gres_job_test, gres_job_test2 and           *)
(*             gres_step_test applied to bounded node/job/step states;     *)
(*   SpecLock  the entry points' use of gres_context_lock;                 *)
(*   SpecPack  the save/restore of node, job and step state through a      *)
(*             buffer;                                                     *)
(*   SpecInit  the registry of kinds: gres_init from GresTypes, gres_add,  *)
(*             gres_fini;                                                  *)
(*   SpecJob   gres_job_state_validate on a new job and on its update;     *)
(*   SpecConf  _node_config_init on a declared string, read character by   *)
(*             character (counts modulo CntRange);                         *)
(*   SpecLoad  gres_g_node_config_load: slurm.conf merged with gres.conf;  *)
(*   SpecRace  gres_init called by several threads, line group by line     *)
(*             group;                                                      *)
(*   SpecTotal the kinds' totals over the nodes' init, reconfigure and     *)
(*             restore;                                                    *)
(*   SpecReval gres_job_revalidate2 on a job and the node table;           *)
(*   SpecSock  gres_job_test2 on nodes with topology: the per-socket       *)
(*             breakdown of _build_sock_gres_by_topo;                      *)
(*   SpecPick  the greedy pick of topology entries in _job_test, one       *)
(*             iteration per step;                                         *)
(*   SpecStat  _validate_file and _my_stat: the wait for a device file     *)
(*             (SpecStatFair: the process keeps running);                  *)
(*   SpecMap   _get_gres_map and _get_gres_mask, a token per step          *)
(*             (SpecMapFair: the lookup keeps running).                    *)
(*                                                                         *)
(* Counts are uint64_t in the source.  TLC's integers are 32 bits wide, so *)
(* the word is scaled down: every uint64_t operation is taken modulo       *)
(* U64Range and NO_VAL64 / INFINITE64 are its two largest values, as in    *)
(* the source (0xfffffffffffffffe and 0xffffffffffffffff).                 *)
(***************************************************************************)
EXTENDS Integers, Sequences, FiniteSets, TLC

VARIABLES
    gres_list,        \* Spec: the node's List of gres_state_t (<<>> is NULL/empty)
    gres_conf_list,   \* Spec: the slurmd's records, set by gres_node_config_unpack
    gres_context,     \* Spec: per kind, config_flags and total_cnt
    node_gres,        \* Spec: the node's declared resource string
    last,             \* Spec: what the last operation was and what it returned
    fit,              \* SpecFit: inputs, outputs and state of the fit tests
    lk,               \* SpecLock: gres_context_lock and the callers' positions
    ser,              \* SpecPack: a state save/restore: the list, the buffer, the result
    reg,              \* SpecInit: the registry of kinds, gres_context[] and its flags
    jv,               \* SpecJob: a job's request as gres_job_state_validate leaves it
    cnf,              \* SpecConf: a declared string as _node_config_init reads it
    ld,               \* SpecLoad: gres_conf_list as gres_g_node_config_load builds it
    ini,              \* SpecRace: the registry and the threads inside gres_init
    tl,               \* SpecTotal: the nodes' records and the kinds' totals
    rv,               \* SpecReval: a job, the node table and what revalidation returned
    sk,               \* SpecSock: the socket builder's request and result
    pk,               \* SpecPick: the topology pick in progress
    wt,               \* SpecStat: the wait for a device file in progress
    gm                \* SpecMap: the per-task map or mask lookup in progress

vars ==
    <<gres_list, gres_conf_list, gres_context, node_gres, last, fit, lk, ser,
      reg, jv, cnf, ld, ini, tl, rv, sk, pk, wt, gm>>

(***************************************************************************)
(* Bounds of the model.                                                    *)
(***************************************************************************)
U64Range == 64
U32Range == 256
MaxCount == 2
MaxConfRecs == 2
MaxJobAlloc == 2
CoreCnt == 2
MaxOps == 5
MaxRequest == 4         \* largest per-node quantity a job asks for
ScenarioCores == 32     \* cores of the node the fit engine is run on
NumThreads == 2         \* threads calling into the registry

(***************************************************************************)
(* Program constants.                                                      *)
(***************************************************************************)
NO_VAL64 == U64Range - 2
NO_VAL == U32Range - 2
INFINITE64 == U64Range - 1
MAX_GRES_BITMAP == 1024
SLURM_SUCCESS == 0
SLURM_ERROR == 0 - 1
EINVAL == 22
ESLURM_INVALID_GRES == 2072

gpu_plugin_id == "gpu"
mps_plugin_id == "mps"
nic_plugin_id == "nic"          \* a kind that neither shares nor is shared

\* gres_context[] in its initialization order: "mps" always follows "gpu"
GresContextOrder == <<gpu_plugin_id, mps_plugin_id, nic_plugin_id>>
Kinds == {gpu_plugin_id, mps_plugin_id, nic_plugin_id}

gres_id_shared(plugin_id) == plugin_id = mps_plugin_id
gres_id_sharing(plugin_id) == plugin_id = gpu_plugin_id

\* uint64_t arithmetic
U64(x) == x % U64Range
U32(x) == x % U32Range
Max(a, b) == IF a >= b THEN a ELSE b
Min(a, b) == IF a <= b THEN a ELSE b

(***************************************************************************)
(* bitstr_t: NULL, or a size and the set of bits that are set.             *)
(***************************************************************************)
NullBitmap == [null |-> TRUE, size |-> 0, bits |-> {}]
bit_alloc(n) == [null |-> FALSE, size |-> n, bits |-> {}]
bit_size(b) == b.size
bit_test(b, i) == i \in b.bits
bit_set(b, i) == [b EXCEPT !.bits = @ \cup ({i} \cap (0 .. (b.size - 1)))]
bit_realloc(b, n) == [null |-> FALSE, size |-> n, bits |-> {i \in b.bits : i < n}]
bit_set_count(b) == Cardinality(b.bits)
bit_overlap(a, b) == Cardinality(a.bits \cap b.bits)
bit_clear_all(b) == [b EXCEPT !.bits = {}]
bit_set_all(b) == [b EXCEPT !.bits = 0 .. (b.size - 1)]
bit_or(a, b) == [a EXCEPT !.bits = @ \cup b.bits]
bit_and(a, b) == [a EXCEPT !.bits = @ \cap b.bits]

(***************************************************************************)
(* gres_node_state_t.  The parallel topo_* arrays are one sequence of      *)
(* entries, the parallel type_* arrays another; type_cnt is Len(types).    *)
(* A type is its id, 0 being "no type name" (gres_build_id(NULL) = 0).     *)
(***************************************************************************)
EmptyTopo == [core_bitmap |-> NullBitmap, gres_bitmap |-> NullBitmap,
              cnt_avail |-> 0, cnt_alloc |-> 0, type_id |-> 0]

_build_gres_node_state ==
    [gres_cnt_config |-> NO_VAL64, gres_cnt_found |-> NO_VAL64,
     gres_cnt_avail |-> 0, gres_cnt_alloc |-> 0,
     gres_bit_alloc |-> NullBitmap, no_consume |-> FALSE,
     node_feature |-> FALSE,
     topo_cnt |-> 0, topo |-> <<>>, types |-> <<>>]

\* xrealloc of the topo arrays to n entries: kept entries keep their values,
\* new ones are zero filled
TopoResize(topo, n) ==
    [i \in 1 .. n |-> IF i <= Len(topo) THEN topo[i] ELSE EmptyTopo]

\* _gres_node_state_delete_topo: every array is freed
_gres_node_state_delete_topo(gd) == [gd EXCEPT !.topo = <<>>]

\* list_find_first(gres_list, gres_find_id, &plugin_id): index, 0 if none
FindId(list, plugin_id) ==
    IF \E i \in 1 .. Len(list) : list[i].plugin_id = plugin_id
    THEN CHOOSE i \in 1 .. Len(list) :
            /\ list[i].plugin_id = plugin_id
            /\ \A j \in 1 .. (i - 1) : list[j].plugin_id # plugin_id
    ELSE 0

(***************************************************************************)
(* A declared resource string ("gpu:tesla:2,mps:4") is its sequence of     *)
(* comma separated tokens, each [name, type, cnt]: type 0 is no type, cnt  *)
(* -1 is no count (the token "gpu" is [gpu, 0, -1]).                       *)
(***************************************************************************)
gres_add_type(types, type, tmp_gres_cnt) ==
    IF \E i \in 1 .. Len(types) : types[i].type_id = type
    THEN LET i == CHOOSE k \in 1 .. Len(types) :
                     /\ types[k].type_id = type
                     /\ \A j \in 1 .. (k - 1) : types[j].type_id # type
         IN [types EXCEPT ![i].cnt_avail = U64(@ + tmp_gres_cnt)]
    ELSE Append(types, [type_id |-> type, cnt_avail |-> U64(tmp_gres_cnt),
                        cnt_alloc |-> 0])

RECURSIVE GetGresCntLoop(_, _, _, _, _)
GetGresCntLoop(toks, i, name, cnt, types) ==
    IF i > Len(toks) THEN [cnt |-> cnt, types |-> types]
    ELSE LET tok == toks[i] IN
         IF tok.name # name
         THEN GetGresCntLoop(toks, i + 1, name, cnt, types)
         ELSE IF tok.type = 0 /\ tok.cnt < 0
         THEN [cnt |-> 1, types |-> types]      \* "gpu": count 1, stop
         ELSE LET tmp == IF tok.cnt < 0 THEN 1 ELSE tok.cnt
                  ty == IF tok.type = 0 THEN types
                        ELSE gres_add_type(types, tok.type, tmp)
              IN GetGresCntLoop(toks, i + 1, name, U64(cnt + tmp), ty)

\* _get_gres_cnt: sets gres_cnt_config and the per type available counts
_get_gres_cnt(gd, orig_config, name) ==
    LET zeroed == [i \in 1 .. Len(gd.types) |->
                      [gd.types[i] EXCEPT !.cnt_avail = 0]]
        r == GetGresCntLoop(orig_config, 1, name, 0, zeroed)
    IN [gd EXCEPT !.gres_cnt_config = r.cnt, !.types = r.types]

\* _node_config_init: [gd, total_cnt]
_node_config_init(gd0, orig_config, name, total_cnt) ==
    IF orig_config = <<>>
    THEN [gd |-> [gd0 EXCEPT !.gres_cnt_config = 0], total_cnt |-> total_cnt]
    ELSE LET g1 == _get_gres_cnt(gd0, orig_config, name)
             avail == Max(g1.gres_cnt_avail, g1.gres_cnt_config)
             g2 == [g1 EXCEPT !.gres_cnt_avail = avail]
             g3 == IF /\ ~g2.gres_bit_alloc.null
                      /\ avail > bit_size(g2.gres_bit_alloc)
                      /\ ~gres_id_shared(name)
                   THEN [g2 EXCEPT !.gres_bit_alloc = bit_realloc(@, avail)]
                   ELSE g2
         IN [gd |-> g3, total_cnt |-> U64(total_cnt + g1.gres_cnt_config)]

(***************************************************************************)
(* gres_slurmd_conf_t, one record of gres_conf_list:                       *)
(*   [plugin_id, count, cpus, type_name, has_file, has_type]               *)
(* cpus is NullBitmap (no "Cores=") or the cores named; type_name is the   *)
(* type's id, 0 when the record has no "Type=".                            *)
(***************************************************************************)
RECURSIVE TotGresLoop(_, _, _, _)
TotGresLoop(conf, k, plugin_id, acc) ==
    IF k > Len(conf) THEN acc
    ELSE IF conf[k].plugin_id # plugin_id
    THEN TotGresLoop(conf, k + 1, plugin_id, acc)
    ELSE TotGresLoop(conf, k + 1, plugin_id,
            [gres_cnt |-> U64(acc.gres_cnt + conf[k].count),
             rec_cnt |-> acc.rec_cnt + 1,
             cpu_set_cnt |-> acc.cpu_set_cnt +
                 (IF ~conf[k].cpus.null \/ conf[k].type_name # 0
                  THEN 1 ELSE 0)])

\* _get_tot_gres_cnt: [gres_cnt, topo_cnt, config_type_cnt]
_get_tot_gres_cnt(plugin_id, conf) ==
    LET a == TotGresLoop(conf, 1, plugin_id,
                         [gres_cnt |-> 0, rec_cnt |-> 0, cpu_set_cnt |-> 0])
    IN [gres_cnt |-> a.gres_cnt,
        topo_cnt |-> IF a.cpu_set_cnt > 0 THEN a.rec_cnt ELSE 0,
        config_type_cnt |-> a.rec_cnt]

\* _gres_bit_alloc_resize
_gres_bit_alloc_resize(gd, gres_bits) ==
    IF gres_bits = 0 THEN [gd EXCEPT !.gres_bit_alloc = NullBitmap]
    ELSE IF gd.gres_bit_alloc.null
    THEN [gd EXCEPT !.gres_bit_alloc = bit_alloc(gres_bits)]
    ELSE IF gres_bits # bit_size(gd.gres_bit_alloc)
    THEN [gd EXCEPT !.gres_bit_alloc = bit_realloc(@, gres_bits)]
    ELSE gd

\* _valid_gres_types, the loop over the topo entries of one type:
\* [topo, found] with the entries' cnt_avail cut down to the type's count
RECURSIVE ValidTypesTopo(_, _, _, _, _)
ValidTypesTopo(topo, topo_cnt, t, ty, found) ==
    IF t > topo_cnt THEN [topo |-> topo, found |-> found]
    ELSE IF topo[t].type_id # ty.type_id
    THEN ValidTypesTopo(topo, topo_cnt, t + 1, ty, found)
    ELSE LET gres_sum == U64(found + topo[t].cnt_avail)
             avail == IF gres_sum > ty.cnt_avail
                      THEN U64(topo[t].cnt_avail - (gres_sum - ty.cnt_avail))
                      ELSE topo[t].cnt_avail
         IN ValidTypesTopo([topo EXCEPT ![t].cnt_avail = avail], topo_cnt,
                           t + 1, ty, U64(found + avail))

RECURSIVE ValidTypesLoop(_, _, _)
ValidTypesLoop(gd, topo, i) ==
    IF i > Len(gd.types) THEN [ok |-> TRUE, topo |-> topo]
    ELSE LET r == ValidTypesTopo(topo, gd.topo_cnt, 1, gd.types[i], 0)
         IN IF r.found < gd.types[i].cnt_avail
            THEN [ok |-> FALSE, topo |-> r.topo]
            ELSE ValidTypesLoop(gd, r.topo, i + 1)

\* _valid_gres_types: [ok, gd]
_valid_gres_types(gd) ==
    IF Len(gd.types) = 0 \/ gd.topo_cnt = 0 THEN [ok |-> TRUE, gd |-> gd]
    ELSE LET r == ValidTypesLoop(gd, gd.topo, 1)
         IN [ok |-> r.ok, gd |-> [gd EXCEPT !.topo = r.topo]]

\* _valid_gres_type: type_cnt is nonzero inside the loop, so the count of a
\* model is the sum of type_cnt_avail over the entries of the same type id
ModelCnt(types, i) ==
    LET RECURSIVE Sum(_)
        Sum(j) == IF j > Len(types) THEN 0
                  ELSE (IF types[j].type_id = types[i].type_id
                        THEN types[j].cnt_avail ELSE 0) + Sum(j + 1)
    IN U64(Sum(1))

RECURSIVE ValidTypeLoop(_, _, _)
ValidTypeLoop(types, i, config_overrides) ==
    IF i > Len(types) THEN [rc |-> 0, types |-> types]
    ELSE LET model_cnt == ModelCnt(types, i) IN
         IF config_overrides
         THEN ValidTypeLoop([types EXCEPT ![i].cnt_avail = model_cnt], i + 1,
                            config_overrides)
         ELSE IF model_cnt < types[i].cnt_avail
         THEN [rc |-> 0 - 1, types |-> types]
         ELSE ValidTypeLoop(types, i + 1, config_overrides)

\* _valid_gres_type: [rc, gd], rc nonzero when a type's count is too low
_valid_gres_type(gd, config_overrides) ==
    LET r == ValidTypeLoop(gd.types, 1, config_overrides)
    IN [rc |-> r.rc, gd |-> [gd EXCEPT !.types = r.types]]


(***************************************************************************)
(* _node_config_validate, the loop that rebuilds the topology from the     *)
(* slurmd's records.  st = [topo, i, gres_inx, cpus_config,                *)
(* cpu_config_err, has_file]; i counts the entries filled so far.          *)
(***************************************************************************)
\* bit_unfmt(bit_alloc(core_cnt), cpus) fails on a core beyond the bitmap
CoresOk(cpus, core_cnt) == cpus.bits \subseteq (0 .. (core_cnt - 1))

\* the inner loop "for (j = 0; j < count; j++)" of a sharing/plain kind:
\* the units gres_inx .. of this record that fit below dev_cnt
UnitsOf(gres_inx, count, dev_cnt) ==
    {u \in gres_inx .. (gres_inx + count - 1) : u < dev_cnt}

RebuildEntry(gd, st, rec, plugin_id, core_cnt, dev_cnt) ==
    LET e0 == st.topo[st.i + 1]
        e1 == IF ~gd.gres_bit_alloc.null /\ ~gres_id_shared(plugin_id)
              THEN [e0 EXCEPT !.cnt_alloc = 0] ELSE e0
        e2 == [e1 EXCEPT !.cnt_avail = rec.count]
        e3 == IF ~rec.cpus.null /\ CoresOk(rec.cpus, core_cnt)
              THEN [e2 EXCEPT !.core_bitmap =
                       [null |-> FALSE, size |-> core_cnt,
                        bits |-> rec.cpus.bits]]
              ELSE e2
        cpus_config == IF ~rec.cpus.null THEN core_cnt ELSE st.cpus_config
        cpu_config_err == st.cpu_config_err \/
                          (rec.cpus.null /\ st.cpus_config # 0)
        units == UnitsOf(st.gres_inx, rec.count, dev_cnt)
        e4 == IF gres_id_shared(rec.plugin_id)
              THEN IF e3.gres_bitmap.null
                   THEN [e3 EXCEPT !.gres_bitmap =
                            bit_set(bit_alloc(dev_cnt), st.gres_inx)]
                   ELSE e3
              ELSE IF dev_cnt = 0 THEN e3
              ELSE [e3 EXCEPT
                      !.gres_bitmap = [null |-> FALSE, size |-> dev_cnt,
                                       bits |-> units],
                      !.cnt_alloc = U64(@ + Cardinality(
                          IF gd.gres_bit_alloc.null THEN {}
                          ELSE units \cap gd.gres_bit_alloc.bits))]
        e5 == [e4 EXCEPT !.type_id = rec.type_name]
        inx == IF gres_id_shared(rec.plugin_id) THEN st.gres_inx + 1
               ELSE IF dev_cnt = 0 THEN st.gres_inx
               ELSE st.gres_inx + Cardinality(units)
    IN [topo |-> [st.topo EXCEPT ![st.i + 1] = e5],
        i |-> st.i + 1, gres_inx |-> inx,
        cpus_config |-> cpus_config, cpu_config_err |-> cpu_config_err,
        has_file |-> st.has_file /\
                     (gres_id_shared(rec.plugin_id) \/ dev_cnt # 0)]

\* "if (++i >= gres_data->topo_cnt) break;" ends the loop right after an
\* entry was filled: st.i counts the entries filled, so the test is made
\* on entering the next iteration, once an entry has been filled
RECURSIVE RebuildLoop(_, _, _, _, _, _, _)
RebuildLoop(gd, st, conf, k, plugin_id, core_cnt, dev_cnt) ==
    IF k > Len(conf) \/ (st.i > 0 /\ st.i >= gd.topo_cnt) THEN st
    ELSE IF conf[k].plugin_id # plugin_id
    THEN RebuildLoop(gd, st, conf, k + 1, plugin_id, core_cnt, dev_cnt)
    ELSE RebuildLoop(gd, RebuildEntry(gd, st, conf[k], plugin_id, core_cnt,
                                      dev_cnt),
                     conf, k + 1, plugin_id, core_cnt, dev_cnt)

\* after the loop: records without cores get every core when only some of
\* the records named cores
RebuildCores(gd, st, core_cnt) ==
    [gd |-> [gd EXCEPT !.topo =
                IF st.cpu_config_err
                THEN [j \in 1 .. Len(st.topo) |->
                        IF j <= st.i /\ st.topo[j].core_bitmap.null
                        THEN [st.topo[j] EXCEPT !.core_bitmap =
                                 bit_set_all(bit_alloc(core_cnt))]
                        ELSE st.topo[j]]
                ELSE st.topo],
     has_file |-> st.has_file]

RebuildTopo(gd, conf, plugin_id, core_cnt, dev_cnt, has_file) ==
    RebuildCores(gd,
        RebuildLoop(gd,
            [topo |-> gd.topo, i |-> 0, gres_inx |-> 0,
             cpus_config |-> 0, cpu_config_err |-> FALSE,
             has_file |-> has_file],
            conf, 1, plugin_id, core_cnt, dev_cnt),
        core_cnt)

\* the "else if (!has_file && has_type)" loop: type counts from the records
RECURSIVE AddTypeInfo(_, _, _, _)
AddTypeInfo(types, conf, k, plugin_id) ==
    IF k > Len(conf) THEN types
    ELSE IF conf[k].plugin_id # plugin_id
    THEN AddTypeInfo(types, conf, k + 1, plugin_id)
    ELSE LET type_id == conf[k].type_name
             t1 == IF \E i \in 1 .. Len(types) : types[i].type_id = type_id
                   THEN LET i == CHOOSE x \in 1 .. Len(types) :
                               /\ types[x].type_id = type_id
                               /\ \A j \in 1 .. (x - 1) :
                                      types[j].type_id # type_id
                        IN [types EXCEPT ![i].cnt_avail = conf[k].count]
                   ELSE gres_add_type(types, type_id, conf[k].count)
         IN AddTypeInfo(t1, conf, k + 1, plugin_id)


(***************************************************************************)
(* _node_config_validate: [rc, gd].  ctx is the kind's gres_context entry. *)
(***************************************************************************)
\* a comparison that would take the reported count as it is
CountsNotClipped(gd, tot, config_overrides) ==
    [rc |-> IF gd.gres_cnt_config > tot.gres_cnt /\ ~config_overrides
            THEN EINVAL ELSE SLURM_SUCCESS,
     gres_cnt |-> tot.gres_cnt,
     gd |-> [gd EXCEPT !.gres_cnt_found = tot.gres_cnt],
     updated_config |-> TRUE]

\* a comparison that would never remember what the slurmd has reported
CountsNotRecorded(gd, tot, config_overrides) ==
    [rc |-> SLURM_SUCCESS, gres_cnt |-> tot.gres_cnt, gd |-> gd,
     updated_config |-> TRUE]

\* lines 2741-2795: compare the counts, decide whether anything changed
ValidateCounts(gd, tot, config_overrides) ==
    LET rc1 == IF gd.gres_cnt_config > tot.gres_cnt /\ ~config_overrides
               THEN EINVAL ELSE SLURM_SUCCESS
        gres_cnt == IF tot.gres_cnt > gd.gres_cnt_config
                    THEN gd.gres_cnt_config ELSE tot.gres_cnt
        changed == gd.gres_cnt_found # gres_cnt
        in_use == gd.gres_cnt_found # NO_VAL64 /\ gd.gres_cnt_alloc # 0
        rc2 == IF changed /\ in_use THEN EINVAL ELSE rc1
        gd1 == IF changed /\ ~in_use
               THEN [gd EXCEPT !.gres_cnt_found = gres_cnt] ELSE gd
        updated_config ==
            \/ changed /\ ~in_use
            \/ \E i \in 1 .. Len(gd.types) : gd.types[i].cnt_avail = 0
    IN [rc |-> rc2, gres_cnt |-> gres_cnt, gd |-> gd1,
        updated_config |-> updated_config]

\* lines 2802-2868: clear or resize the topology; [gd, rebuild_topo]
ValidateResize(gd0, plugin_id, topo_cnt, dev_cnt, has_file) ==
    LET gd == IF topo_cnt = 0 /\ topo_cnt # gd0.topo_cnt
              THEN [_gres_node_state_delete_topo(gd0) EXCEPT !.topo_cnt = 0]
              ELSE gd0
    IN IF has_file /\ topo_cnt # gd.topo_cnt /\ dev_cnt = 0
       THEN [gd |-> [_gres_node_state_delete_topo(gd) EXCEPT
                        !.gres_bit_alloc = NullBitmap, !.topo_cnt = 0],
             rebuild_topo |-> FALSE]
       ELSE IF has_file /\ topo_cnt # gd.topo_cnt
       THEN [gd |-> [gd EXCEPT
                        !.topo = [i \in 1 .. topo_cnt |->
                                    IF i <= gd.topo_cnt /\ i <= Len(gd.topo)
                                    THEN [gd.topo[i] EXCEPT
                                            !.gres_bitmap = NullBitmap,
                                            !.core_bitmap = NullBitmap]
                                    ELSE IF i <= Len(gd.topo) THEN gd.topo[i]
                                    ELSE EmptyTopo],
                        !.gres_bit_alloc = IF @.null THEN @
                                           ELSE bit_realloc(@, dev_cnt),
                        !.topo_cnt = topo_cnt],
             rebuild_topo |-> TRUE]
       ELSE [gd |-> gd,
             rebuild_topo |-> gres_id_shared(plugin_id) /\ gd.topo_cnt # 0]

\* lines 3023-3053: the declared count becomes the available count
ValidateAvailBits(gd1, name, topo_cnt, has_file) ==
    LET gd2 == [gd1 EXCEPT !.gres_cnt_avail = gd1.gres_cnt_config]
    IN IF ~has_file THEN gd2
       ELSE IF gres_id_shared(name)
       THEN _gres_bit_alloc_resize(gd2, topo_cnt)
       ELSE IF gd2.gres_cnt_avail > MAX_GRES_BITMAP
       THEN _gres_bit_alloc_resize(
                [gd2 EXCEPT !.gres_cnt_avail = MAX_GRES_BITMAP,
                            !.gres_cnt_found = MAX_GRES_BITMAP],
                MAX_GRES_BITMAP)
       ELSE _gres_bit_alloc_resize(gd2, gd2.gres_cnt_avail)

\* c is [gd, has_file] as the topology rebuild left them
ValidateAvail(c, config, name, topo_cnt) ==
    ValidateAvailBits(
        IF config = <<>> THEN [c.gd EXCEPT !.gres_cnt_config = 0]
        ELSE IF c.gd.gres_cnt_config = NO_VAL64
        THEN _get_gres_cnt(c.gd, config, name)
        ELSE c.gd,
        name, topo_cnt, c.has_file)

\* lines 3055-3099: the final checks; [rc, gd]
\* v1 is what _valid_gres_type returned
ValidateFinalType(v1, rc, config_overrides) ==
    IF v1.rc # 0 THEN [rc |-> EINVAL, gd |-> v1.gd]
    ELSE IF /\ config_overrides
            /\ v1.gd.topo_cnt # 0
            /\ v1.gd.gres_cnt_found # v1.gd.gres_cnt_config
    THEN [rc |-> rc,
          gd |-> [_gres_node_state_delete_topo(v1.gd) EXCEPT !.topo_cnt = 0]]
    ELSE [rc |-> rc, gd |-> v1.gd]

\* vt is what _valid_gres_types returned
ValidateFinalCount(vt, rc, config_overrides) ==
    IF ~vt.ok THEN [rc |-> EINVAL, gd |-> vt.gd]
    ELSE IF ~config_overrides /\ vt.gd.gres_cnt_found < vt.gd.gres_cnt_config
    THEN [rc |-> EINVAL, gd |-> vt.gd]
    ELSE ValidateFinalType(_valid_gres_type(vt.gd, config_overrides), rc,
                           config_overrides)

ValidateFinal(gd, rc, config_type_cnt, config_overrides) ==
    ValidateFinalCount(IF config_type_cnt > 1 THEN _valid_gres_types(gd)
                       ELSE [ok |-> TRUE, gd |-> gd],
                       rc, config_overrides)

_node_config_validate(gd0, config, plugin_id, conf, core_cnt, config_overrides, ctx) ==
    IF gd0.node_feature THEN [rc |-> SLURM_SUCCESS, gd |-> gd0]
    ELSE
    LET tot == _get_tot_gres_cnt(plugin_id, conf)
        a == ValidateCounts(gd0, tot, config_overrides)
    IN IF ~a.updated_config THEN [rc |-> a.rc, gd |-> a.gd]
       ELSE
       LET dev_cnt == IF gres_id_shared(plugin_id) THEN tot.topo_cnt
                      ELSE a.gres_cnt
           b == ValidateResize(a.gd, plugin_id, tot.topo_cnt, dev_cnt,
                               ctx.has_file)
           c == IF b.rebuild_topo
                THEN RebuildTopo(b.gd, conf, plugin_id, core_cnt, dev_cnt,
                                 ctx.has_file)
                ELSE IF ~ctx.has_file /\ ctx.has_type
                THEN [gd |-> [b.gd EXCEPT !.types =
                                 AddTypeInfo(@, conf, 1, plugin_id)],
                      has_file |-> ctx.has_file]
                ELSE [gd |-> b.gd, has_file |-> ctx.has_file]
       IN ValidateFinal(ValidateAvail(c, config, plugin_id, tot.topo_cnt),
                        a.rc, tot.config_type_cnt, config_overrides)


(***************************************************************************)
(* _sync_node_mps_to_gpu: the new gres/mps node state.  The sum of line    *)
(* 3466 runs over the old topo_cnt; when that exceeds gpu_cnt the entries  *)
(* beyond the shrunken array are read, but the sum is then used by no      *)
(* iteration of the loop of line 3472, so it is taken over the kept part.  *)
(***************************************************************************)
RECURSIVE MpsDistribute(_, _, _, _)
MpsDistribute(topo, i, gpu_cnt, mps_rem) ==
    IF i >= gpu_cnt THEN topo
    ELSE LET mps_alloc == mps_rem \div (gpu_cnt - i)
         IN MpsDistribute(
               [topo EXCEPT ![i + 1] =
                   [@ EXCEPT !.gres_bitmap = bit_set(bit_alloc(gpu_cnt), i),
                             !.cnt_avail = mps_alloc]],
               i + 1, gpu_cnt, mps_rem - mps_alloc)

SumAvail(topo, n) ==
    LET RECURSIVE S(_)
        S(i) == IF i > n \/ i > Len(topo) THEN 0
                ELSE topo[i].cnt_avail + S(i + 1)
    IN U64(S(1))

_sync_node_mps_to_gpu(mps, gpu) ==
    LET gpu_cnt == gpu.gres_cnt_avail IN
    IF ~mps.gres_bit_alloc.null /\ gpu_cnt = bit_size(mps.gres_bit_alloc)
    THEN mps
    ELSE IF gpu_cnt = 0 THEN mps
    ELSE
    LET freed == [i \in 1 .. Len(mps.topo) |->
                    IF i > gpu_cnt /\ i <= mps.topo_cnt
                    THEN [mps.topo[i] EXCEPT !.core_bitmap = NullBitmap,
                                             !.gres_bitmap = NullBitmap]
                    ELSE mps.topo[i]]
    IN IF mps.gres_cnt_avail = 0
       THEN [mps EXCEPT !.topo = freed, !.topo_cnt = 0]
       ELSE
       LET bits == IF mps.gres_bit_alloc.null THEN bit_alloc(gpu_cnt)
                   ELSE bit_realloc(mps.gres_bit_alloc, gpu_cnt)
           sized == IF mps.topo_cnt # 0 THEN TopoResize(freed, gpu_cnt)
                    ELSE TopoResize(<<>>, gpu_cnt)
           mps_alloc == SumAvail(sized, mps.topo_cnt)
           mps_rem == IF mps_alloc >= mps.gres_cnt_avail THEN 0
                      ELSE mps.gres_cnt_avail - mps_alloc
           filled == MpsDistribute(sized, mps.topo_cnt, gpu_cnt, mps_rem)
           fitted == [i \in 1 .. gpu_cnt |->
                        IF ~filled[i].gres_bitmap.null /\
                           gpu_cnt # bit_size(filled[i].gres_bitmap)
                        THEN [filled[i] EXCEPT !.gres_bitmap =
                                 bit_realloc(@, gpu_cnt)]
                        ELSE filled[i]]
       IN [mps EXCEPT !.gres_bit_alloc = bits, !.topo = fitted,
                      !.topo_cnt = gpu_cnt]

(***************************************************************************)
(* gres_node_reconfig and its helpers.                                     *)
(***************************************************************************)
\* a test that would accept every count
AnyCountAccepted(gd, new_gres, name, ctx) == SLURM_SUCCESS

\* _node_reconfig_test: with File= the count may only stay or become zero
_node_reconfig_test(gd, new_gres, name, ctx) ==
    IF ~ctx.has_file THEN SLURM_SUCCESS
    ELSE LET new == _get_gres_cnt(_build_gres_node_state, new_gres, name)
         IN IF new.gres_cnt_config # 0 /\
               new.gres_cnt_config # gd.gres_cnt_config
            THEN ESLURM_INVALID_GRES ELSE SLURM_SUCCESS

\* _node_reconfig: [gd, total_cnt, updated_gpu_cnt]; always SLURM_SUCCESS.
\* gd1 is the record after _get_gres_cnt, orig_cnt the count before it
NodeReconfigCounts(gd1, orig_cnt, name, ctx) ==
    IF gd1.gres_cnt_config = orig_cnt
       THEN [gd |-> gd1, total_cnt |-> ctx.total_cnt,
             updated_gpu_cnt |-> FALSE]
       ELSE
       LET total == U64(U64(ctx.total_cnt - orig_cnt) + gd1.gres_cnt_config)
           avail == IF gd1.gres_cnt_config = 0 THEN 0
                    ELSE IF gd1.gres_cnt_found # NO_VAL64
                    THEN gd1.gres_cnt_found
                    ELSE IF gd1.gres_cnt_avail = NO_VAL64 THEN 0
                    ELSE gd1.gres_cnt_avail
           gd2 == [gd1 EXCEPT !.gres_cnt_avail = avail]
       IN IF ctx.has_file
          THEN [gd |-> _gres_bit_alloc_resize(gd2,
                          IF gres_id_shared(name) THEN gd2.topo_cnt
                          ELSE avail),
                total_cnt |-> total, updated_gpu_cnt |-> FALSE]
          ELSE IF /\ ~gd2.gres_bit_alloc.null
                  /\ ~gres_id_shared(name)
                  /\ avail # bit_size(gd2.gres_bit_alloc)
          THEN [gd |-> [gd2 EXCEPT
                    !.gres_bit_alloc = bit_realloc(@, avail),
                    !.topo = [i \in 1 .. Len(gd2.topo) |->
                                IF /\ i <= gd2.topo_cnt
                                   /\ ~gd2.topo[i].gres_bitmap.null
                                   /\ avail # bit_size(gd2.topo[i].gres_bitmap)
                                THEN [gd2.topo[i] EXCEPT !.gres_bitmap =
                                         bit_realloc(@, avail)]
                                ELSE gd2.topo[i]]],
                total_cnt |-> total,
                updated_gpu_cnt |-> gres_id_sharing(name)]
          ELSE [gd |-> gd2, total_cnt |-> total, updated_gpu_cnt |-> FALSE]

_node_reconfig(gd0, new_gres, name, ctx) ==
    NodeReconfigCounts(_get_gres_cnt(gd0, new_gres, name),
                       gd0.gres_cnt_config, name, ctx)

\* _node_state_dealloc
_node_state_dealloc(gd) ==
    [gd EXCEPT !.gres_cnt_alloc = 0,
               !.gres_bit_alloc = IF @.null THEN @ ELSE bit_clear_all(@),
               !.topo = [i \in 1 .. Len(gd.topo) |->
                           [gd.topo[i] EXCEPT !.cnt_alloc = 0]],
               !.types = [i \in 1 .. Len(gd.types) |->
                            [gd.types[i] EXCEPT !.cnt_alloc = 0]]]


(***************************************************************************)
(* Inputs of the node ledger's operations.                                 *)
(***************************************************************************)
\* declared strings: at most one gres/gpu token and at most one gres/mps
\* token, e.g. "gpu:2,mps:2" or, with a type, "gpu:tesla:2"
GpuTokens ==
    {<<>>} \cup
    {<<[name |-> gpu_plugin_id, type |-> 0, cnt |-> c]>> : c \in 1 .. MaxCount}
    \cup {<<[name |-> gpu_plugin_id, type |-> 1, cnt |-> MaxCount]>>}
MpsTokens ==
    {<<>>} \cup {<<[name |-> mps_plugin_id, type |-> 0, cnt |-> MaxCount]>>}
ConfigMenu == {g \o m : g \in GpuTokens, m \in MpsTokens}

\* "Cores=" of the i-th record when the records are bound to cores
CoresOf(bound, i) ==
    IF bound
    THEN [null |-> FALSE, size |-> 0, bits |-> {(i - 1) % CoreCnt}]
    ELSE NullBitmap

\* the slurmd's records: n gres/gpu records alike (count only, or with
\* "File=" and "Cores=", or with "Type="), then m gres/mps records
GpuConf(n, c, file) ==
    [i \in 1 .. n |->
        [plugin_id |-> gpu_plugin_id, count |-> c, cpus |-> CoresOf(file, i),
         type_name |-> 0, has_file |-> file, has_type |-> FALSE]]
TypedConf(n, c, t) ==
    [i \in 1 .. n |->
        [plugin_id |-> gpu_plugin_id, count |-> c, cpus |-> NullBitmap,
         type_name |-> t, has_file |-> FALSE, has_type |-> TRUE]]
MpsConf(m) ==
    [i \in 1 .. m |->
        [plugin_id |-> mps_plugin_id, count |-> 1, cpus |-> CoresOf(TRUE, i),
         type_name |-> 0, has_file |-> TRUE, has_type |-> FALSE]]
ConfMenu ==
    {GpuConf(n, c, file) \o MpsConf(m) :
        n \in 0 .. MaxConfRecs, c \in 1 .. MaxCount, file \in BOOLEAN,
        m \in {0, MaxConfRecs}} \cup
    {TypedConf(1, MaxCount, t) : t \in 1 .. 2}

\* the record of the last operation: its name, what it returned, how many
\* operations the node has seen (at most MaxOps are followed), and the name
\* of the operation before it
Did(op, rc) == [op |-> op, rc |-> rc, n |-> last.n + 1, prev |-> last.op]
MayAct == last.n < MaxOps

GresData(list, plugin_id) == list[FindId(list, plugin_id)].gres_data
SetGresData(list, plugin_id, gd) ==
    [list EXCEPT ![FindId(list, plugin_id)].gres_data = gd]

\* "find or create gres_state entry on the list"
FindOrCreate(list, plugin_id) ==
    IF FindId(list, plugin_id) # 0 THEN list
    ELSE Append(list, [plugin_id |-> plugin_id,
                       gres_data |-> _build_gres_node_state])

(***************************************************************************)
(* gres_init_node_config: the node record is built from slurm.conf.        *)
(***************************************************************************)
RECURSIVE InitLoop(_, _, _, _)
InitLoop(list, ctx, config, i) ==
    IF i > Len(GresContextOrder) THEN [list |-> list, ctx |-> ctx]
    ELSE LET id == GresContextOrder[i]
             l1 == FindOrCreate(list, id)
             r == _node_config_init(GresData(l1, id), config, id,
                                    ctx[id].total_cnt)
         IN InitLoop(SetGresData(l1, id, r.gd),
                     [ctx EXCEPT ![id].total_cnt = r.total_cnt],
                     config, i + 1)

gres_init_node_config ==
    /\ gres_list = <<>>
    /\ \E config \in ConfigMenu :
          \E r \in {InitLoop(gres_list, gres_context, config, 1)} :
             /\ gres_list' = r.list
             /\ gres_context' = r.ctx
             /\ node_gres' = config
             /\ last' = Did("init", SLURM_SUCCESS)
    /\ UNCHANGED <<gres_conf_list, fit, lk, ser, reg, jv, cnf, ld, ini, tl,
                rv, sk, pk, wt, gm>>

(***************************************************************************)
(* gres_node_config_unpack: the records of a registration message replace  *)
(* gres_conf_list, and their flags are or-ed into the kinds' config_flags. *)
(***************************************************************************)
RECURSIVE UnpackLoop(_, _, _, _)
UnpackLoop(recs, i, ctx, out) ==
    IF i > Len(recs) THEN [ctx |-> ctx, conf |-> out]
    ELSE LET r == recs[i]
             c == ctx[r.plugin_id]
             file == r.has_file \/ (c.has_file /\ r.count # 0)
             count == IF r.has_file /\ r.count > MAX_GRES_BITMAP
                      THEN MAX_GRES_BITMAP ELSE r.count
             type == r.has_type \/ (c.has_type /\ r.count # 0)
         IN UnpackLoop(recs, i + 1,
               [ctx EXCEPT ![r.plugin_id].has_file = @ \/ file,
                           ![r.plugin_id].has_type = @ \/ type],
               Append(out, [r EXCEPT !.has_file = file, !.has_type = type,
                                     !.count = count]))

gres_node_config_unpack ==
    /\ gres_list # <<>>
    /\ MayAct
    /\ last.n + 1 < MaxOps       \* room for the validate that follows
    /\ \E recs \in ConfMenu :
          LET r == UnpackLoop(recs, 1, gres_context, <<>>)
          IN /\ gres_conf_list' = r.conf
             /\ gres_context' = r.ctx
             /\ last' = Did("unpack", SLURM_SUCCESS)
    /\ UNCHANGED <<gres_list, node_gres, fit, lk, ser, reg, jv, cnf, ld, ini,
                tl, rv, sk, pk, wt, gm>>


(***************************************************************************)
(* gres_node_config_validate: every kind in gres_context order, then the   *)
(* gres/mps record is synced to gres/gpu.  Returns the MAX of the rc.      *)
(***************************************************************************)
\* one kind: r is what _node_config_validate returned for the entry of id
\* on the list l1
ValidateKind(l1, rc, id, r) ==
    [list |-> SetGresData(l1, id, r.gd), rc |-> Max(rc, r.rc)]

ValidateEntry(l1, rc, id, ctx, config_overrides) ==
    ValidateKind(l1, rc, id,
        _node_config_validate(GresData(l1, id), node_gres, id,
                              gres_conf_list, CoreCnt, config_overrides,
                              ctx[id]))

\* st is [list, rc]
RECURSIVE ValidateLoop(_, _, _, _)
ValidateLoop(st, ctx, config_overrides, i) ==
    IF i > Len(GresContextOrder) THEN st
    ELSE ValidateLoop(ValidateEntry(FindOrCreate(st.list, GresContextOrder[i]),
                                    st.rc, GresContextOrder[i], ctx,
                                    config_overrides),
                      ctx, config_overrides, i + 1)

\* a sync that would look at the gres/gpu record as it was before the loop
SyncBeforeValidate(r) ==
    [list |-> SetGresData(r.list, mps_plugin_id,
                 _sync_node_mps_to_gpu(GresData(r.list, mps_plugin_id),
                                       GresData(gres_list, gpu_plugin_id))),
     rc |-> r.rc]

\* r is [list, rc] after the loop over the kinds
ValidateSync(r) ==
    [list |-> SetGresData(r.list, mps_plugin_id,
                 _sync_node_mps_to_gpu(GresData(r.list, mps_plugin_id),
                                       GresData(r.list, gpu_plugin_id))),
     rc |-> r.rc]

NodeConfigValidate(list, ctx, config_overrides) ==
    ValidateSync(ValidateLoop([list |-> list, rc |-> SLURM_SUCCESS], ctx,
                              config_overrides, 1))

gres_node_config_validate ==
    /\ gres_list # <<>>
    /\ MayAct
    /\ last.op \in {"unpack", "validate"}
    /\ \E config_overrides \in BOOLEAN :
          \E r \in {NodeConfigValidate(gres_list, gres_context,
                                       config_overrides)} :
             /\ gres_list' = r.list
             /\ last' = Did("validate", r.rc)
    /\ UNCHANGED <<gres_conf_list, gres_context, node_gres, fit, lk, ser, reg,
                jv, cnf, ld, ini, tl, rv, sk, pk, wt, gm>>

(***************************************************************************)
(* gres_node_reconfig: every change is tested first, then applied; then    *)
(* gres/mps is synced to the record the first loop looked at last.         *)
(***************************************************************************)
RECURSIVE ReconfigTestLoop(_, _, _, _, _)
ReconfigTestLoop(list, ctx, new_gres, rc, i) ==
    IF i > Len(GresContextOrder) \/ rc # SLURM_SUCCESS THEN rc
    ELSE LET id == GresContextOrder[i]
         IN IF FindId(list, id) = 0
            THEN ReconfigTestLoop(list, ctx, new_gres, rc, i + 1)
            ELSE ReconfigTestLoop(list, ctx, new_gres,
                    _node_reconfig_test(GresData(list, id), new_gres, id,
                                        ctx[id]),
                    i + 1)

\* one kind: r is what _node_reconfig returned for the entry of id;
\* st is [list, ctx, updated]
ReconfigKind(st, id, r) ==
    [list |-> SetGresData(st.list, id, r.gd),
     ctx |-> [st.ctx EXCEPT ![id].total_cnt = r.total_cnt],
     updated |-> st.updated \/ r.updated_gpu_cnt]

RECURSIVE ReconfigLoop(_, _, _)
ReconfigLoop(st, new_gres, i) ==
    IF i > Len(GresContextOrder) THEN st
    ELSE IF FindId(st.list, GresContextOrder[i]) = 0
    THEN ReconfigLoop(st, new_gres, i + 1)
    ELSE ReconfigLoop(
            ReconfigKind(st, GresContextOrder[i],
                _node_reconfig(GresData(st.list, GresContextOrder[i]),
                               new_gres, GresContextOrder[i],
                               st.ctx[GresContextOrder[i]])),
            new_gres, i + 1)

\* r is [list, ctx, updated] after the second loop; gres_ptr is then the
\* entry of the last kind the first loop looked at
ReconfigSync(r, last_id) ==
    [list |-> IF r.updated /\ FindId(r.list, last_id) # 0
                 /\ FindId(r.list, mps_plugin_id) # 0
              THEN SetGresData(r.list, mps_plugin_id,
                      _sync_node_mps_to_gpu(GresData(r.list, mps_plugin_id),
                                            GresData(r.list, last_id)))
              ELSE r.list,
     ctx |-> r.ctx, rc |-> SLURM_SUCCESS]

NodeReconfig(list, ctx, new_gres) ==
    LET rc == ReconfigTestLoop(list, ctx, new_gres, SLURM_SUCCESS, 1)
    IN IF rc # SLURM_SUCCESS THEN [list |-> list, ctx |-> ctx, rc |-> rc]
       ELSE ReconfigSync(ReconfigLoop([list |-> list, ctx |-> ctx,
                                       updated |-> FALSE], new_gres, 1),
                         GresContextOrder[Len(GresContextOrder)])

ReconfigWith(new_gres) ==
    /\ gres_list # <<>>
    /\ MayAct
    /\ last.op # "unpack"
    /\ \E r \in {NodeReconfig(gres_list, gres_context, new_gres)} :
          /\ gres_list' = r.list
          /\ gres_context' = r.ctx
          \* the caller keeps the new string only when the call succeeded
          /\ node_gres' = IF r.rc = SLURM_SUCCESS THEN new_gres
                          ELSE node_gres
          /\ last' = Did("reconfig", r.rc)
    /\ UNCHANGED <<gres_conf_list, fit, lk, ser, reg, jv, cnf, ld, ini, tl,
                rv, sk, pk, wt, gm>>

gres_node_reconfig == \E new_gres \in ConfigMenu : ReconfigWith(new_gres)

(***************************************************************************)
(* gres_node_state_dealloc_all                                             *)
(***************************************************************************)
gres_node_state_dealloc_all ==
    /\ gres_list # <<>>
    /\ MayAct
    /\ last.op # "unpack"
    /\ gres_list' = [i \in 1 .. Len(gres_list) |->
                       [gres_list[i] EXCEPT !.gres_data =
                           _node_state_dealloc(@)]]
    /\ last' = Did("dealloc_all", SLURM_SUCCESS)
    /\ UNCHANGED <<gres_conf_list, gres_context, node_gres, fit, lk, ser, reg,
                jv, cnf, ld, ini, tl, rv, sk, pk, wt, gm>>

(***************************************************************************)
(* A job is given n units of a kind.  The code of the allocation is not    *)
(* part of gres.c; the step follows the specification: it is taken only    *)
(* when the units are free, and it marks the units it takes.               *)
(***************************************************************************)
LowestFree(b, n) ==
    {u \in 0 .. (b.size - 1) :
        /\ u \notin b.bits
        /\ Cardinality({v \in 0 .. (u - 1) : v \notin b.bits}) < n}

JobAllocCounted(gd, n) ==
    IF gd.gres_bit_alloc.null
    THEN [gd EXCEPT !.gres_cnt_alloc = @ + n]
    ELSE LET take == LowestFree(gd.gres_bit_alloc, n)
         IN [gd EXCEPT
               !.gres_cnt_alloc = @ + n,
               !.gres_bit_alloc.bits = @ \cup take,
               !.topo = [i \in 1 .. Len(gd.topo) |->
                           IF i <= gd.topo_cnt /\ ~gd.topo[i].gres_bitmap.null
                           THEN [gd.topo[i] EXCEPT !.cnt_alloc = @ +
                                   Cardinality(take \cap
                                       gd.topo[i].gres_bitmap.bits)]
                           ELSE gd.topo[i]]]

JobAllocShared(gd, n, t) ==
    [gd EXCEPT !.gres_cnt_alloc = @ + n,
               !.topo[t].cnt_alloc = @ + n,
               !.gres_bit_alloc = IF @.null THEN @ ELSE bit_set(@, t - 1)]

JobAlloc ==
    /\ gres_list # <<>>
    /\ MayAct
    /\ last.op # "unpack"
    /\ \E id \in Kinds, n \in 1 .. MaxJobAlloc :
          LET gd == GresData(gres_list, id) IN
          /\ gd.gres_cnt_alloc + n <= gd.gres_cnt_avail
          /\ IF gres_id_shared(id) /\ gd.topo_cnt # 0
             THEN \E t \in 1 .. gd.topo_cnt :
                     /\ gd.topo[t].cnt_alloc + n <= gd.topo[t].cnt_avail
                     /\ gres_list' = SetGresData(gres_list, id,
                                         JobAllocShared(gd, n, t))
             ELSE /\ \/ gd.gres_bit_alloc.null
                     \/ Cardinality((0 .. (gd.gres_bit_alloc.size - 1)) \
                                    gd.gres_bit_alloc.bits) >= n
                  /\ gres_list' = SetGresData(gres_list, id,
                                     JobAllocCounted(gd, n))
    /\ last' = Did("job_alloc", SLURM_SUCCESS)
    /\ UNCHANGED <<gres_conf_list, gres_context, node_gres, fit, lk, ser, reg,
                jv, cnf, ld, ini, tl, rv, sk, pk, wt, gm>>

(***************************************************************************)
(* The node ledger.                                                        *)
(***************************************************************************)
FitIdle == [op |-> "idle"]
SerIdle == [pc |-> "idle"]
RegIdle == [gres_context_cnt |-> 0 - 1]
JvIdle == [pc |-> "idle"]
CnfIdle == [pc |-> "idle"]
LdIdle == [pc |-> "idle"]
IniIdle == [pc |-> "idle"]
TlIdle == [pc |-> "idle"]
RvIdle == [pc |-> "idle"]
SkIdle == [pc |-> "idle"]
PkIdle == [pc |-> "idle"]
WtIdle == [pc |-> "idle"]
GmIdle == [pc |-> "idle"]
Threads == 1 .. NumThreads
\* gres_context_lock is free (owner 0) and no thread is inside an entry point
LockIdle == [owner |-> 0, exited |-> FALSE,
             th |-> [t \in Threads |-> [ep |-> "none", pc |-> "idle"]]]

Init ==
    /\ gres_list = <<>>
    /\ gres_conf_list = <<>>
    /\ gres_context = [id \in Kinds |->
                          [has_file |-> FALSE, has_type |-> FALSE,
                           total_cnt |-> 0]]
    /\ node_gres = <<>>
    /\ last = [op |-> "none", rc |-> SLURM_SUCCESS, n |-> 0, prev |-> "none"]
    /\ fit = FitIdle
    /\ lk = LockIdle
    /\ ser = SerIdle
    /\ reg = RegIdle
    /\ jv = JvIdle
    /\ cnf = CnfIdle
    /\ ld = LdIdle
    /\ ini = IniIdle
    /\ tl = TlIdle
    /\ rv = RvIdle
    /\ sk = SkIdle
    /\ pk = PkIdle
    /\ wt = WtIdle
    /\ gm = GmIdle

Next ==
    \/ gres_init_node_config
    \/ gres_node_config_unpack
    \/ gres_node_config_validate
    \/ gres_node_reconfig
    \/ gres_node_state_dealloc_all
    \/ JobAlloc

Spec == Init /\ [][Next]_vars


(***************************************************************************)
(* The fit engine.  A job record is [plugin_id, gres_data] with gres_data  *)
(* a gres_job_state_t; type_id 0 stands for "no type_name".                *)
(***************************************************************************)
\* _core_bitmap_rebuild
_core_bitmap_rebuild(old_core_bitmap, new_size) ==
    LET old_size == bit_size(old_core_bitmap) IN
    IF old_size > new_size
    THEN LET ratio == old_size \div new_size
         IN [null |-> FALSE, size |-> new_size,
             bits |-> {i \in 0 .. (new_size - 1) :
                          \E j \in 0 .. (ratio - 1) :
                              bit_test(old_core_bitmap, i * ratio + j)}]
    ELSE LET ratio == new_size \div old_size
         IN [null |-> FALSE, size |-> new_size,
             bits |-> {i * ratio + j : i \in old_core_bitmap.bits,
                                       j \in 0 .. (ratio - 1)}]

\* a resize that would also forget what is allocated on the node
ForgetAllocCores(node, cores_ctld) == [node EXCEPT !.gres_cnt_alloc = 0]

\* gres_validate_node_cores: the node's core bitmaps take the size cores_ctld
gres_validate_node_cores(node, cores_ctld) ==
    IF node.topo_cnt = 0 THEN node
    ELSE [node EXCEPT !.topo =
            [i \in 1 .. Len(node.topo) |->
                IF /\ i <= node.topo_cnt
                   /\ ~node.topo[i].core_bitmap.null
                   /\ bit_size(node.topo[i].core_bitmap) # cores_ctld
                THEN [node.topo[i] EXCEPT !.core_bitmap =
                         _core_bitmap_rebuild(@, cores_ctld)]
                ELSE node.topo[i]]]

\* "Determine minimum GRES count needed on this node"
MinGresNode(job) ==
    Max(Max(Max(IF job.gres_per_job # 0 THEN 1 ELSE 0, job.gres_per_node),
            job.gres_per_socket), job.gres_per_task)

\* the job names a type that topology entry e does not have
WrongType(job, e) == job.type_id # 0 /\ (e.type_id = 0 \/ e.type_id # job.type_id)

\* entry e can be reached from one of the job's candidate cores
TopoCoreMatch(e, core_bitmap, core_start_bit) ==
    \E j \in 0 .. (bit_size(e.core_bitmap) - 1) :
        /\ core_bitmap.null \/ bit_test(core_bitmap, core_start_bit + j)
        /\ bit_test(e.core_bitmap, j)

\* strategy (a), lines 6516-6555: [gres_avail, gres_max] after the entries
RECURSIVE PinnedLoop(_, _, _, _, _, _, _, _, _)
PinnedLoop(job, node, i, use_total_gres, use_busy_dev, shared_gres, core_bitmap, core_start_bit, acc) ==
    IF i > node.topo_cnt THEN acc
    ELSE LET e == node.topo[i]
             counted ==
                /\ ~WrongType(job, e)
                /\ ~(use_busy_dev /\ e.cnt_alloc = 0)
                /\ \/ e.core_bitmap.null
                   \/ TopoCoreMatch(e, core_bitmap, core_start_bit)
             a1 == U64(acc.gres_avail + e.cnt_avail)
             a2 == IF use_total_gres THEN a1 ELSE U64(a1 - e.cnt_alloc)
             next == IF counted
                     THEN [gres_avail |-> a2,
                           gres_max |-> IF shared_gres
                                        THEN Max(acc.gres_max, a2)
                                        ELSE acc.gres_max]
                     ELSE acc
         IN PinnedLoop(job, node, i + 1, use_total_gres, use_busy_dev,
                       shared_gres, core_bitmap, core_start_bit, next)


\* the outcome of one _job_test call: its return value and what it leaves
\* in the node record, the caller's core bitmap and the caller's topo_set;
\* chosen lists the topology entries picked by the greedy selection
JobTestResult(ret, node, core_bitmap, topo_set, chosen) ==
    [ret |-> ret, node |-> node, core_bitmap |-> core_bitmap,
     topo_set |-> topo_set, chosen |-> chosen]

\* the branch of _job_test that a request takes on a node record
Strategy(job, node, topo_set, disable_binding) ==
    IF MinGresNode(job) # 0 /\ node.topo_cnt # 0 /\ topo_set THEN "pinned"
    ELSE IF MinGresNode(job) # 0 /\ node.topo_cnt # 0 /\ ~disable_binding
    THEN "binding"
    ELSE IF job.type_id # 0 THEN "typed"
    ELSE "plain"

\* strategy (a), lines 6501-6560: cores were pinned by an earlier kind
JobTestPinned(job, node0, use_total_gres, use_busy_dev, shared_gres, core_bitmap, core_start_bit, core_end_bit) ==
    LET core_ctld == core_end_bit - core_start_bit + 1 IN
    IF ~core_bitmap.null /\ core_ctld < 1
    THEN JobTestResult(0, node0, core_bitmap, TRUE, <<>>)
    ELSE LET node == IF core_bitmap.null THEN node0
                     ELSE gres_validate_node_cores(node0, core_ctld)
             acc == PinnedLoop(job, node, 1, use_total_gres, use_busy_dev,
                               shared_gres, core_bitmap, core_start_bit,
                               [gres_avail |-> 0, gres_max |-> 0])
             gres_avail == IF shared_gres THEN acc.gres_max
                           ELSE acc.gres_avail
         IN JobTestResult(IF MinGresNode(job) > gres_avail THEN 0 ELSE NO_VAL,
                          node, core_bitmap, TRUE, <<>>)

\* lines 6604-6634: candidate cores reachable from each usable entry
CoresAvail(job, node, use_total_gres, use_busy_dev, core_bitmap, core_start_bit, core_end_bit) ==
    [i \in 1 .. node.topo_cnt |->
        LET e == node.topo[i] IN
        IF \/ e.cnt_avail = 0
           \/ use_busy_dev /\ e.cnt_alloc = 0
           \/ ~use_total_gres /\ e.cnt_alloc >= e.cnt_avail
           \/ WrongType(job, e)
        THEN 0
        ELSE IF e.core_bitmap.null THEN core_end_bit - core_start_bit + 1
        ELSE Cardinality({j \in 0 .. (bit_size(e.core_bitmap) - 1) :
                            /\ core_bitmap.null \/
                                   bit_test(core_bitmap, core_start_bit + j)
                            /\ bit_test(e.core_bitmap, j)})]

\* lines 6642-6651
CoresAddnt(node, gres_avail, cores_avail, alloc_core_bitmap) ==
    [j \in 1 .. node.topo_cnt |->
        IF \/ gres_avail = 0
           \/ cores_avail[j] = 0
           \/ node.topo[j].core_bitmap.null
        THEN cores_avail[j]
        ELSE U32(cores_avail[j] -
                 bit_overlap(alloc_core_bitmap, node.topo[j].core_bitmap))]

\* the same scan keeping the last of the entries that add the most
RECURSIVE TopInxLast(_, _, _, _, _)
TopInxLast(cores_addnt, cores_avail, j, n, top_inx) ==
    IF j > n THEN top_inx
    ELSE TopInxLast(cores_addnt, cores_avail, j + 1, n,
                    IF top_inx = 0
                    THEN (IF cores_avail[j] # 0 THEN j ELSE 0)
                    ELSE IF cores_addnt[j] >= cores_addnt[top_inx] THEN j
                    ELSE top_inx)

\* lines 6641-6658: the entry adding the most cores, the first one on a tie;
\* 0 stands for top_inx == -1
RECURSIVE TopInxLoop(_, _, _, _, _)
TopInxLoop(cores_addnt, cores_avail, j, n, top_inx) ==
    IF j > n THEN top_inx
    ELSE TopInxLoop(cores_addnt, cores_avail, j + 1, n,
                    IF top_inx = 0
                    THEN (IF cores_avail[j] # 0 THEN j ELSE 0)
                    ELSE IF cores_addnt[j] > cores_addnt[top_inx] THEN j
                    ELSE top_inx)

\* an entry that would never have anything left to give
NoneRemaining(e, use_total_gres) == 0

\* lines 6665-6673: what entry e still has to give
TopoRemaining(e, use_total_gres) ==
    IF use_total_gres THEN e.cnt_avail
    ELSE IF e.cnt_avail >= e.cnt_alloc THEN e.cnt_avail - e.cnt_alloc
    ELSE 0

\* lines 6685-6698: cores committed after picking entry e
AllocCores(e, gres_avail, alloc_core_bitmap, avail_core_bitmap, has_core_bitmap) ==
    IF e.core_bitmap.null THEN bit_set_all(alloc_core_bitmap)
    ELSE IF gres_avail # 0
    THEN LET u == bit_or(alloc_core_bitmap, e.core_bitmap)
         IN IF has_core_bitmap THEN bit_and(u, avail_core_bitmap) ELSE u
    ELSE bit_and(alloc_core_bitmap, e.core_bitmap)

\* lines 6713-6724: a shared kind commits the cores of its last pick
AllocCoresShared(e, alloc_core_bitmap, avail_core_bitmap, has_core_bitmap) ==
    IF e.core_bitmap.null THEN bit_set_all(alloc_core_bitmap)
    ELSE LET u == bit_or(alloc_core_bitmap, e.core_bitmap)
         IN IF has_core_bitmap THEN bit_and(u, avail_core_bitmap) ELSE u

\* the while loop of lines 6639-6712
RECURSIVE PickLoop(_, _, _, _, _, _, _)
PickLoop(node, use_total_gres, shared_gres, has_core_bitmap, avail_core_bitmap, min_gres_node, s) ==
    IF s.gres_avail >= min_gres_node THEN s
    ELSE
    LET cores_addnt == CoresAddnt(node, s.gres_avail, s.cores_avail,
                                  s.alloc_core_bitmap)
        top_inx == TopInxLoop(cores_addnt, s.cores_avail, 1, node.topo_cnt, 0)
    IN IF top_inx = 0 \/ s.cores_avail[top_inx] = 0
       THEN [s EXCEPT !.top_inx = top_inx,
                      !.core_cnt = IF s.gres_total < min_gres_node
                                   THEN 0 ELSE @]
       ELSE
       LET e == node.topo[top_inx]
           gres_tmp == TopoRemaining(e, use_total_gres)
           used == [s EXCEPT !.top_inx = top_inx,
                             !.cores_avail[top_inx] = 0]
       IN IF gres_tmp = 0 THEN used
          ELSE IF shared_gres
          THEN PickLoop(node, use_total_gres, shared_gres, has_core_bitmap,
                        avail_core_bitmap, min_gres_node,
                        [used EXCEPT
                            !.gres_total = Max(s.gres_total, gres_tmp),
                            !.gres_avail = Max(s.gres_total, gres_tmp),
                            !.chosen = Append(@, top_inx)])
          ELSE LET alloc == AllocCores(e, s.gres_avail, s.alloc_core_bitmap,
                                       avail_core_bitmap, has_core_bitmap)
               IN PickLoop(node, use_total_gres, shared_gres,
                           has_core_bitmap, avail_core_bitmap, min_gres_node,
                           [used EXCEPT
                               !.alloc_core_bitmap = alloc,
                               !.gres_avail = U64(s.gres_avail + 1),
                               !.gres_total = U64(s.gres_total + gres_tmp),
                               !.core_cnt = bit_set_count(alloc),
                               !.chosen = Append(@, top_inx)])

\* lines 6580-6586: without a candidate bitmap the core count is that of the
\* first entry that has a core bitmap
RECURSIVE FirstCoreSize(_, _, _)
FirstCoreSize(node, i, core_ctld) ==
    IF i > node.topo_cnt THEN core_ctld
    ELSE IF node.topo[i].core_bitmap.null
    THEN FirstCoreSize(node, i + 1, core_ctld)
    ELSE bit_size(node.topo[i].core_bitmap)

\* a selection that would leave the candidate cores as they were
KeepCandidates(core_bitmap, alloc_core_bitmap, core_start_bit, core_ctld) ==
    core_bitmap

\* lines 6727-6735: candidate cores that were not committed are cleared
ClearUnselected(core_bitmap, alloc_core_bitmap, core_start_bit, core_ctld) ==
    [core_bitmap EXCEPT !.bits =
        @ \ {core_start_bit + i :
                i \in (0 .. (core_ctld - 1)) \ alloc_core_bitmap.bits}]

\* lines 6727-6740: alloc and core_cnt are the cores committed and their
\* count, chosen the entries picked
BindingResult(node, core_bitmap, core_start_bit, core_ctld, topo_set, alloc, core_cnt, chosen) ==
    JobTestResult(core_cnt, node,
                  IF ~core_bitmap.null /\ core_cnt > 0
                  THEN ClearUnselected(core_bitmap, alloc, core_start_bit,
                                       core_ctld)
                  ELSE core_bitmap,
                  (~core_bitmap.null /\ core_cnt > 0) \/ topo_set,
                  chosen)

\* lines 6713-6726: s is the state the while loop ended in
BindingCommit(node, shared_gres, core_bitmap, core_start_bit, core_ctld, avail_core_bitmap, min_gres_node, topo_set, s) ==
    IF shared_gres /\ s.top_inx # 0 /\ s.gres_avail >= min_gres_node
    THEN BindingResult(node, core_bitmap, core_start_bit, core_ctld, topo_set,
             AllocCoresShared(node.topo[s.top_inx], s.alloc_core_bitmap,
                              avail_core_bitmap, ~core_bitmap.null),
             bit_set_count(
                 AllocCoresShared(node.topo[s.top_inx], s.alloc_core_bitmap,
                                  avail_core_bitmap, ~core_bitmap.null)),
             <<s.top_inx>>)
    ELSE BindingResult(node, core_bitmap, core_start_bit, core_ctld, topo_set,
                       s.alloc_core_bitmap, s.core_cnt,
                       IF shared_gres THEN <<>> ELSE s.chosen)

\* lines 6587-6712: the candidate cores as a bitmap of the node's cores,
\* then the greedy selection
BindingPick(job, node, use_total_gres, use_busy_dev, shared_gres, core_bitmap, core_start_bit, core_end_bit, core_ctld, avail_core_bitmap, topo_set) ==
    BindingCommit(node, shared_gres, core_bitmap, core_start_bit, core_ctld,
        avail_core_bitmap, MinGresNode(job), topo_set,
        PickLoop(node, use_total_gres, shared_gres, ~core_bitmap.null,
                 avail_core_bitmap, MinGresNode(job),
                 [gres_avail |-> 0, gres_total |-> 0,
                  cores_avail |->
                      CoresAvail(job, node, use_total_gres, use_busy_dev,
                                 core_bitmap, core_start_bit, core_end_bit),
                  alloc_core_bitmap |-> avail_core_bitmap,
                  core_cnt |-> 0, top_inx |-> 0, chosen |-> <<>>]))

\* lines 6576-6603: node is the record after gres_validate_node_cores
BindingCores(job, node, use_total_gres, use_busy_dev, shared_gres, core_bitmap, core_start_bit, core_end_bit, core_ctld, topo_set) ==
    BindingPick(job, node, use_total_gres, use_busy_dev, shared_gres,
        core_bitmap, core_start_bit, core_end_bit, core_ctld,
        IF core_bitmap.null THEN bit_set_all(bit_alloc(core_ctld))
        ELSE [null |-> FALSE, size |-> core_ctld,
              bits |-> {j \in 0 .. (core_ctld - 1) :
                           bit_test(core_bitmap, core_start_bit + j)}],
        topo_set)

BindingNode(job, node, use_total_gres, use_busy_dev, shared_gres, core_bitmap, core_start_bit, core_end_bit, topo_set) ==
    BindingCores(job, node, use_total_gres, use_busy_dev, shared_gres,
        core_bitmap, core_start_bit, core_end_bit,
        IF core_bitmap.null
        THEN FirstCoreSize(node, 1, core_end_bit - core_start_bit + 1)
        ELSE core_end_bit - core_start_bit + 1,
        topo_set)

\* strategy (b), lines 6561-6740: this kind decides the cores
JobTestBinding(job, node0, use_total_gres, use_busy_dev, shared_gres, core_bitmap, core_start_bit, core_end_bit, topo_set) ==
    LET min_gres_node == MinGresNode(job)
        gres_avail == IF use_total_gres THEN node0.gres_cnt_avail
                      ELSE U64(node0.gres_cnt_avail - node0.gres_cnt_alloc)
        range == core_end_bit - core_start_bit + 1
    IN
    IF min_gres_node > gres_avail \/ (~core_bitmap.null /\ range < 1)
    THEN JobTestResult(0, node0, core_bitmap, topo_set, <<>>)
    ELSE BindingNode(job,
             IF core_bitmap.null THEN node0
             ELSE gres_validate_node_cores(node0, range),
             use_total_gres, use_busy_dev, shared_gres, core_bitmap,
             core_start_bit, core_end_bit, topo_set)

\* lines 6741-6759: the job names a type, the node has no usable topology
JobTestTyped(job, node, use_total_gres) ==
    LET hits == {i \in 1 .. Len(node.types) :
                    node.types[i].type_id = job.type_id}
    IN IF hits = {} THEN 0
       ELSE LET t == node.types[CHOOSE i \in hits : \A k \in hits : i <= k]
                gres_avail == IF use_total_gres THEN t.cnt_avail
                              ELSE U64(t.cnt_avail - t.cnt_alloc)
                gres_tmp == IF use_total_gres THEN node.gres_cnt_avail
                            ELSE U64(node.gres_cnt_avail -
                                     node.gres_cnt_alloc)
            IN IF MinGresNode(job) > Min(gres_avail, gres_tmp) THEN 0
               ELSE NO_VAL

\* lines 6760-6767: counts only
JobTestPlain(job, node, use_total_gres) ==
    LET gres_avail == IF use_total_gres THEN node.gres_cnt_avail
                      ELSE U64(node.gres_cnt_avail - node.gres_cnt_alloc)
    IN IF MinGresNode(job) > gres_avail THEN 0 ELSE NO_VAL

_job_test(job, node, use_total, core_bitmap, core_start_bit, core_end_bit, topo_set, plugin_id, disable_binding) ==
    LET use_total_gres == node.no_consume \/ use_total
        shared_gres == gres_id_shared(plugin_id)
        use_busy_dev == ~use_total_gres /\ shared_gres /\
                            node.gres_cnt_alloc # 0
        strategy == Strategy(job, node, topo_set, disable_binding)
    IN IF strategy = "pinned"
       THEN JobTestPinned(job, node, use_total_gres, use_busy_dev,
                          shared_gres, core_bitmap, core_start_bit,
                          core_end_bit)
       ELSE IF strategy = "binding"
       THEN JobTestBinding(job, node, use_total_gres, use_busy_dev,
                           shared_gres, core_bitmap, core_start_bit,
                           core_end_bit, topo_set)
       ELSE IF strategy = "typed"
       THEN JobTestResult(JobTestTyped(job, node, use_total_gres), node,
                          core_bitmap, topo_set, <<>>)
       ELSE JobTestResult(JobTestPlain(job, node, use_total_gres), node,
                          core_bitmap, topo_set, <<>>)

\* the loop of gres_job_test over the job's records, lines 6807-6838
\* one record of the job: r is what _job_test returned for rec on the
\* node record at index ni
JobTestRecord(st, rec, ni, use_total_gres, disable_binding, r) ==
    [core_cnt |-> IF r.ret = NO_VAL THEN st.core_cnt
                  ELSE IF st.core_cnt = NO_VAL THEN r.ret
                  ELSE Min(r.ret, st.core_cnt),
     node_list |-> [st.node_list EXCEPT ![ni].gres_data = r.node],
     core_bitmap |-> r.core_bitmap,
     topo_set |-> r.topo_set,
     trace |-> Append(st.trace,
         [plugin_id |-> rec.plugin_id,
          job |-> rec.gres_data,
          strategy |-> Strategy(rec.gres_data, st.node_list[ni].gres_data,
                                st.topo_set, disable_binding),
          use_total_gres |-> use_total_gres \/
              st.node_list[ni].gres_data.no_consume,
          cores |-> st.core_bitmap,
          node |-> r.node, ret |-> r.ret,
          chosen |-> r.chosen])]

\* "if (core_cnt == 0) break;" ends the loop after the record that brought
\* core_cnt to 0: core_cnt starts at NO_VAL, so the test is made on
\* entering the next iteration
RECURSIVE JobTestLoop(_, _, _, _, _, _, _)
JobTestLoop(job_list, k, use_total_gres, core_start_bit, core_end_bit, disable_binding, st) ==
    IF k > Len(job_list) \/ st.core_cnt = 0 THEN st
    ELSE IF FindId(st.node_list, job_list[k].plugin_id) = 0
    THEN [st EXCEPT !.core_cnt = 0]
    ELSE JobTestLoop(job_list, k + 1, use_total_gres, core_start_bit,
             core_end_bit, disable_binding,
             JobTestRecord(st, job_list[k],
                 FindId(st.node_list, job_list[k].plugin_id),
                 use_total_gres, disable_binding,
                 _job_test(job_list[k].gres_data,
                     GresData(st.node_list, job_list[k].plugin_id),
                     use_total_gres, st.core_bitmap, core_start_bit,
                     core_end_bit, st.topo_set, job_list[k].plugin_id,
                     disable_binding)))

\* gres_job_test on non-NULL lists
JobTestRun(job_list, node_list, use_total_gres, core_bitmap, core_start_bit, core_end_bit, disable_binding) ==
    JobTestLoop(job_list, 1, use_total_gres, core_start_bit, core_end_bit,
                disable_binding,
                [core_cnt |-> NO_VAL, node_list |-> node_list,
                 core_bitmap |-> core_bitmap, topo_set |-> FALSE,
                 trace |-> <<>>])

\* "min_gres" of the socket builders and of _step_test
MinGres(req) ==
    Max(Max(IF req.gres_per_node # 0 THEN req.gres_per_node ELSE 1,
            req.gres_per_socket), req.gres_per_task)

NoSockGres == [null |-> TRUE, type_id |-> 0, cnt_any_sock |-> 0,
               total_cnt |-> 0]

\* the loop of _build_sock_gres_by_type, lines 7267-7290
RECURSIVE SockByTypeLoop(_, _, _, _, _)
SockByTypeLoop(job, node, use_total_gres, i, acc) ==
    IF i > Len(node.types) THEN acc
    ELSE
    LET t == node.types[i]
        avail_gres == IF use_total_gres THEN t.cnt_avail
                      ELSE t.cnt_avail - t.cnt_alloc
        gres_tmp == IF use_total_gres THEN node.gres_cnt_avail
                    ELSE U64(node.gres_cnt_avail - node.gres_cnt_alloc)
        skip == \/ job.type_id # 0 /\ job.type_id # t.type_id
                \/ ~use_total_gres /\ t.cnt_alloc >= t.cnt_avail
                \/ Min(avail_gres, gres_tmp) < MinGres(job)
    IN SockByTypeLoop(job, node, use_total_gres, i + 1,
           IF skip THEN acc
           ELSE [acc EXCEPT
                    !.null = FALSE,
                    !.cnt_any_sock = U64(@ + Min(avail_gres, gres_tmp)),
                    !.total_cnt = U64(@ + Min(avail_gres, gres_tmp))])

_build_sock_gres_by_type(job, node, use_total_gres) ==
    LET acc == SockByTypeLoop(job, node, use_total_gres, 1,
                              [NoSockGres EXCEPT !.type_id = job.type_id])
    IN IF acc.null THEN NoSockGres ELSE acc

_build_sock_gres_basic(job, node, use_total_gres) ==
    LET avail_gres == IF use_total_gres THEN node.gres_cnt_avail
                      ELSE node.gres_cnt_avail - node.gres_cnt_alloc
    IN IF \/ job.type_id # 0
          \/ ~use_total_gres /\ node.gres_cnt_alloc >= node.gres_cnt_avail
          \/ avail_gres < MinGres(job)
       THEN NoSockGres
       ELSE [NoSockGres EXCEPT !.null = FALSE, !.cnt_any_sock = avail_gres,
                               !.total_cnt = avail_gres]

\* gres_job_test2 reaches _build_sock_gres_by_topo for this request
NeedsSockTopo(job_list, node_list, core_bitmap) ==
    \E k \in 1 .. Len(job_list) :
        /\ FindId(node_list, job_list[k].plugin_id) # 0
        /\ core_bitmap.bits # {}
        /\ GresData(node_list, job_list[k].plugin_id).topo_cnt # 0

\* the loop of gres_job_test2, lines 7425-7498, on nodes without topology
RECURSIVE JobTest2Loop(_, _, _, _, _)
JobTest2Loop(job_list, node_list, use_total_gres, k, st) ==
    IF k > Len(job_list) THEN st
    ELSE
    LET ni == FindId(node_list, job_list[k].plugin_id) IN
    IF ni = 0 THEN [st EXCEPT !.null = TRUE, !.sock_gres_list = <<>>]
    ELSE
    LET job == job_list[k].gres_data
        node == node_list[ni].gres_data
        sock_gres ==
            IF st.core_bitmap.bits = {} THEN NoSockGres
            ELSE IF Len(node.types) # 0
            THEN _build_sock_gres_by_type(job, node, use_total_gres)
            ELSE _build_sock_gres_basic(job, node, use_total_gres)
    IN IF sock_gres.null
       THEN [null |-> TRUE, sock_gres_list |-> <<>>,
             core_bitmap |-> bit_clear_all(st.core_bitmap)]
       ELSE JobTest2Loop(job_list, node_list, use_total_gres, k + 1,
                [st EXCEPT !.sock_gres_list =
                    Append(@, [sock_gres EXCEPT !.null = FALSE]
                                  @@ [plugin_id |-> job_list[k].plugin_id])])

JobTest2Run(job_list, node_list, use_total_gres, core_bitmap) ==
    IF Len(job_list) = 0
    THEN [null |-> TRUE, sock_gres_list |-> <<>>,
          core_bitmap |-> core_bitmap]
    ELSE JobTest2Loop(job_list, node_list, use_total_gres, 1,
                      [null |-> FALSE, sock_gres_list |-> <<>>,
                       core_bitmap |-> core_bitmap])

\* gres_find_job_by_key and gres_find_job_by_key_with_cnt; key.type_id 0
\* stands for NO_VAL (the step names no type); the job's per-node arrays are
\* represented by their element at key.node_offset
gres_find_job_by_key(x, key) ==
    /\ x.plugin_id = key.plugin_id
    /\ key.type_id = 0 \/ x.gres_data.type_id = key.type_id

gres_find_job_by_key_with_cnt(x, key) ==
    /\ gres_find_job_by_key(x, key)
    /\ x.gres_data.node_cnt = 0 \/ x.gres_data.gres_cnt_node_alloc # 0

\* _step_get_gres_cnt applied by list_for_each, which stops at the first
\* callback returning -1
RECURSIVE StepGetGresCntLoop(_, _, _, _, _)
StepGetGresCntLoop(job_list, k, key, ignore_alloc, gres_cnt) ==
    IF k > Len(job_list) THEN gres_cnt
    ELSE IF ~gres_find_job_by_key_with_cnt(job_list[k], key)
    THEN StepGetGresCntLoop(job_list, k + 1, key, ignore_alloc, gres_cnt)
    ELSE
    LET js == job_list[k].gres_data
        cnt0 == IF gres_cnt = INFINITE64 THEN 0 ELSE gres_cnt
    IN IF key.node_offset >= js.node_cnt /\ js.node_cnt # 0 THEN 0
       ELSE IF ~gres_id_shared(key.plugin_id) /\ ~js.gres_bit_alloc.null
       THEN LET c1 == U64(cnt0 + bit_set_count(js.gres_bit_alloc))
                c2 == IF ~ignore_alloc /\ ~js.gres_bit_step_alloc.null
                      THEN U64(c1 - bit_set_count(js.gres_bit_step_alloc))
                      ELSE c1
            IN StepGetGresCntLoop(job_list, k + 1, key, ignore_alloc, c2)
       ELSE IF js.has_cnt_node_alloc /\ js.has_cnt_step_alloc
       THEN LET c1 == U64(cnt0 + js.gres_cnt_node_alloc)
                c2 == IF ~ignore_alloc
                      THEN U64(c1 - js.gres_cnt_step_alloc) ELSE c1
            IN StepGetGresCntLoop(job_list, k + 1, key, ignore_alloc, c2)
       ELSE NO_VAL64

\* a mutation of _step_test: the test of line 8024 is left out
StepTestUnchecked(step0, first_step_node, cpus_per_task, max_rem_nodes, ignore_alloc, gres_cnt0) ==
    IF gres_cnt0 = 0 THEN [ret |-> 0, step |-> step0]
    ELSE
    LET step == IF ~first_step_node THEN step0
                ELSE IF ignore_alloc THEN [step0 EXCEPT !.gross_gres = 0]
                ELSE [step0 EXCEPT !.total_gres = 0]
        gres_cnt == IF gres_cnt0 = NO_VAL64 THEN 0 ELSE gres_cnt0
        core_cnt ==
            IF gres_cnt0 = NO_VAL64 THEN NO_VAL64
            ELSE IF step.gres_per_task # 0
            THEN U64(((gres_cnt0 + step.gres_per_task - 1)
                        \div step.gres_per_task) * cpus_per_task)
            ELSE NO_VAL64
    IN [ret |-> core_cnt,
        step |-> IF core_cnt = 0 THEN step
                 ELSE IF ignore_alloc
                 THEN [step EXCEPT !.gross_gres = U64(@ + gres_cnt)]
                 ELSE [step EXCEPT !.total_gres = U64(@ + gres_cnt)]]

\* _step_test: the returned core count and the step record it leaves
_step_test(step0, first_step_node, cpus_per_task, max_rem_nodes, ignore_alloc, gres_cnt0) ==
    IF gres_cnt0 = 0 THEN [ret |-> 0, step |-> step0]
    ELSE
    LET step == IF ~first_step_node THEN step0
                ELSE IF ignore_alloc THEN [step0 EXCEPT !.gross_gres = 0]
                ELSE [step0 EXCEPT !.total_gres = 0]
        per_step == IF ignore_alloc
                    THEN U64(step.gres_per_step - step.gross_gres)
                    ELSE U64(step.gres_per_step - step.total_gres)
        min_gres == IF /\ step.gres_per_step # 0
                       /\ step.gres_per_step > step.total_gres
                       /\ max_rem_nodes = 1
                    THEN Max(MinGres(step), per_step)
                    ELSE MinGres(step)
        gres_cnt == IF gres_cnt0 = NO_VAL64 THEN 0 ELSE gres_cnt0
        core_cnt ==
            IF gres_cnt0 = NO_VAL64 THEN NO_VAL64
            ELSE IF min_gres > gres_cnt0 THEN 0
            ELSE IF step.gres_per_task # 0
            THEN U64(((gres_cnt0 + step.gres_per_task - 1)
                        \div step.gres_per_task) * cpus_per_task)
            ELSE NO_VAL64
    IN [ret |-> core_cnt,
        step |-> IF core_cnt = 0 THEN step
                 ELSE IF ignore_alloc
                 THEN [step EXCEPT !.gross_gres = U64(@ + gres_cnt)]
                 ELSE [step EXCEPT !.total_gres = U64(@ + gres_cnt)]]

\* the loop of gres_step_test over the step's records, lines 9344-9375
RECURSIVE StepTestLoop(_, _, _, _, _, _, _, _)
StepTestLoop(job_list, node_offset, first_step_node, cpus_per_task, max_rem_nodes, ignore_alloc, k, st) ==
    IF k > Len(st.step_list) THEN st
    ELSE
    LET rec == st.step_list[k]
        key == [plugin_id |-> rec.plugin_id,
                type_id |-> rec.gres_data.type_id,
                node_offset |-> node_offset]
        gres_cnt == StepGetGresCntLoop(job_list, 1, key, ignore_alloc,
                                       INFINITE64)
    IN IF gres_cnt = INFINITE64 THEN [st EXCEPT !.core_cnt = 0]
       ELSE
       LET r == _step_test(rec.gres_data, first_step_node, cpus_per_task,
                           max_rem_nodes, ignore_alloc, gres_cnt)
           core_cnt == IF r.ret # NO_VAL64 /\ r.ret < st.core_cnt
                       THEN r.ret ELSE st.core_cnt
           st1 == [core_cnt |-> core_cnt,
                   step_list |-> [st.step_list EXCEPT
                                     ![k].gres_data = r.step]]
       IN IF core_cnt = 0 THEN st1
          ELSE StepTestLoop(job_list, node_offset, first_step_node,
                            cpus_per_task, max_rem_nodes, ignore_alloc,
                            k + 1, st1)

\* gres_step_test on non-NULL lists
StepTestRun(step_list, job_list, node_offset, first_step_node, cpus_per_task, max_rem_nodes, ignore_alloc) ==
    StepTestLoop(job_list, node_offset, first_step_node,
                 IF cpus_per_task = 0 THEN 1 ELSE cpus_per_task,
                 max_rem_nodes, ignore_alloc, 1,
                 [core_cnt |-> NO_VAL64, step_list |-> step_list])

(***************************************************************************)
(* Inputs of the fit engine: node records as registration and allocation   *)
(* leave them, job requests as gres_job_state_validate builds them, and    *)
(* the select plugin's candidate cores.                                    *)
(***************************************************************************)
PlainNode(avail, alloc) ==
    [_build_gres_node_state EXCEPT !.gres_cnt_config = avail,
                                   !.gres_cnt_found = avail,
                                   !.gres_cnt_avail = avail,
                                   !.gres_cnt_alloc = alloc]

TypedNode(avail, alloc, type_avail, type_alloc) ==
    [PlainNode(avail, alloc) EXCEPT
        !.types = <<[type_id |-> 1, cnt_avail |-> type_avail,
                     cnt_alloc |-> type_alloc]>>]

CoreRange(lo, hi, n) == [null |-> FALSE, size |-> n, bits |-> lo .. hi]
LowCores(n) == CoreRange(0, (n \div 2) - 1, n)
HighCores(n) == CoreRange(n \div 2, n - 1, n)

TopoEntry(cores, avail, alloc) ==
    [EmptyTopo EXCEPT !.core_bitmap = cores, !.cnt_avail = avail,
                      !.cnt_alloc = alloc]

RECURSIVE TopoTotal(_, _, _)
TopoTotal(topo, i, field) ==
    IF i > Len(topo) THEN 0
    ELSE (IF field = "avail" THEN topo[i].cnt_avail ELSE topo[i].cnt_alloc)
             + TopoTotal(topo, i + 1, field)

TopoNode(topo) ==
    [PlainNode(TopoTotal(topo, 1, "avail"), TopoTotal(topo, 1, "alloc"))
        EXCEPT !.topo_cnt = Len(topo), !.topo = topo]

\* four units, two per half of the cores, as one entry per half or one per
\* unit; alloc units of the low half are in use
PairedTopo(n, alloc) ==
    <<TopoEntry(LowCores(n), 2, alloc), TopoEntry(HighCores(n), 2, 0)>>
SingleTopo(n, alloc) ==
    <<TopoEntry(LowCores(n), 1, Min(alloc, 1)),
      TopoEntry(LowCores(n), 1, Max(alloc - 1, 0)),
      TopoEntry(HighCores(n), 1, 0), TopoEntry(HighCores(n), 1, 0)>>
\* the same units seen by a daemon that counts twice as many cores
WideTopo(n, alloc) ==
    <<TopoEntry(LowCores(2 * n), 2, alloc), TopoEntry(HighCores(2 * n), 2, 0)>>

TopoParts ==
    {<<>>} \cup
    {<<[plugin_id |-> id, gres_data |-> TopoNode(topo)]>> :
        id \in {gpu_plugin_id, mps_plugin_id},
        topo \in {PairedTopo(ScenarioCores, a) : a \in 0 .. 1} \cup
                 {SingleTopo(ScenarioCores, 1), WideTopo(ScenarioCores, 1)}}

NicParts ==
    {<<>>} \cup
    {<<[plugin_id |-> nic_plugin_id, gres_data |-> nd]>> :
        nd \in {PlainNode(c[1], c[2]) :
                   c \in {<<0, 0>>, <<1, 0>>, <<2, 0>>, <<1, 1>>, <<0, 1>>,
                          <<1, 2>>}} \cup
               {TypedNode(2, 0, 1, 0), TypedNode(1, 2, 2, 1),
                TypedNode(2, 1, 1, 2)} \cup
               {TopoNode(<<TopoEntry(CoreRange(0, ScenarioCores - 1,
                                              ScenarioCores), 1, 0)>>)}}

FitNodeMenu == {t \o n : t \in TopoParts, n \in NicParts}

\* a gres_job_state_t: the request and, per allocated node, what the job holds
JobState(per_node, type_id) ==
    [type_id |-> type_id, gres_per_job |-> 0, gres_per_node |-> per_node,
     gres_per_socket |-> 0, gres_per_task |-> 0, node_cnt |-> 0,
     gres_bit_alloc |-> NullBitmap, gres_bit_step_alloc |-> NullBitmap,
     has_cnt_node_alloc |-> FALSE, gres_cnt_node_alloc |-> 0,
     has_cnt_step_alloc |-> FALSE, gres_cnt_step_alloc |-> 0]

JobRec(id, per_node, type_id) ==
    [plugin_id |-> id, gres_data |-> JobState(per_node, type_id)]

FitJobMenu ==
    {<<JobRec(id, r, 0)>> : id \in {gpu_plugin_id, mps_plugin_id},
                            r \in 1 .. MaxRequest} \cup
    {<<JobRec(nic_plugin_id, r, t)>> : r \in 1 .. 2, t \in 0 .. 1} \cup
    {<<JobRec(gpu_plugin_id, r, 0), JobRec(nic_plugin_id, 1, 0)>> :
        r \in 1 .. 2} \cup
    {<<JobRec(nic_plugin_id, 1, 0), JobRec(id, r, 0)>> :
        id \in {gpu_plugin_id, mps_plugin_id}, r \in 1 .. MaxRequest}

FitCoreMenu ==
    {NullBitmap, CoreRange(0, ScenarioCores - 1, ScenarioCores),
     LowCores(ScenarioCores), bit_alloc(ScenarioCores)}

\* what a running job holds on the node at node_offset
HeldByBitmap(id, bits, step_bits) ==
    [plugin_id |-> id,
     gres_data |-> [JobState(0, 0) EXCEPT
        !.node_cnt = 1,
        !.gres_bit_alloc = [null |-> FALSE, size |-> MaxCount, bits |-> bits],
        !.gres_bit_step_alloc =
            [null |-> FALSE, size |-> MaxCount, bits |-> step_bits],
        !.has_cnt_node_alloc = TRUE,
        !.gres_cnt_node_alloc = Cardinality(bits)]]

HeldByCount(id, cnt, step_cnt, has_step) ==
    [plugin_id |-> id,
     gres_data |-> [JobState(0, 0) EXCEPT
        !.node_cnt = 1,
        !.has_cnt_node_alloc = TRUE, !.gres_cnt_node_alloc = cnt,
        !.has_cnt_step_alloc = has_step, !.gres_cnt_step_alloc = step_cnt]]

StepJobMenu ==
    {<<HeldByBitmap(gpu_plugin_id, b, sb)>> :
        b \in {{0}, 0 .. (MaxCount - 1)}, sb \in {{}, {0}}} \cup
    {<<HeldByCount(id, c, sc, h)>> :
        id \in {mps_plugin_id, nic_plugin_id}, c \in 0 .. MaxCount,
        sc \in 0 .. 1, h \in BOOLEAN} \cup
    {<<HeldByBitmap(gpu_plugin_id, {0}, {}),
       HeldByCount(nic_plugin_id, c, 0, TRUE)>> : c \in 0 .. 1}

\* a gres_step_state_t
StepRec(id, per_step, per_node, per_task, total) ==
    [plugin_id |-> id,
     gres_data |-> [type_id |-> 0, gres_per_step |-> per_step,
                    gres_per_node |-> per_node, gres_per_socket |-> 0,
                    gres_per_task |-> per_task, total_gres |-> total,
                    gross_gres |-> total]]

StepMenu ==
    {<<StepRec(id, ps, pn, pt, t)>> :
        id \in Kinds, ps \in {0, MaxCount + 1}, pn \in 0 .. MaxCount,
        pt \in 0 .. 1, t \in 0 .. 1} \cup
    {<<StepRec(gpu_plugin_id, 0, 1, 0, t), StepRec(nic_plugin_id, 0, 1, 0, t)>> :
        t \in 0 .. 1}

FitInput(node_list, job_list, step_list, core_bitmap, use_total_gres, disable_binding, first_step_node, cpus_per_task, max_rem_nodes, ignore_alloc) ==
    [node_list |-> node_list, job_list |-> job_list, step_list |-> step_list,
     core_bitmap |-> core_bitmap, core_start_bit |-> 0,
     core_end_bit |-> ScenarioCores - 1,
     use_total_gres |-> use_total_gres, disable_binding |-> disable_binding,
     node_offset |-> 0, first_step_node |-> first_step_node,
     cpus_per_task |-> cpus_per_task, max_rem_nodes |-> max_rem_nodes,
     ignore_alloc |-> ignore_alloc]

FitFlagMenu == {<<FALSE, FALSE>>, <<TRUE, FALSE>>, <<FALSE, TRUE>>}

NoSock == <<>>
NoTrace == <<>>

\* fit.in is what the caller passed, fit.out what the call left in the
\* caller's node list, core bitmap and step list
FitReady(in) ==
    [pc |-> "ready", op |-> "none", in |-> in, ret |-> 0,
     out |-> [node_list |-> in.node_list, core_bitmap |-> in.core_bitmap,
              step_list |-> in.step_list],
     trace |-> NoTrace, sock |-> NoSock]

FitDone(op, ret, node_list, core_bitmap, step_list, trace, sock) ==
    /\ fit' = [fit EXCEPT !.pc = "done", !.op = op, !.ret = ret,
                          !.out = [node_list |-> node_list,
                                   core_bitmap |-> core_bitmap,
                                   step_list |-> step_list],
                          !.trace = trace, !.sock = sock]
    /\ UNCHANGED <<gres_list, gres_conf_list, gres_context, node_gres, last,
                   lk, ser, reg, jv, cnf, ld, ini, tl, rv, sk, pk, wt, gm>>

gres_job_test ==
    /\ fit.pc = "ready"
    /\ \E r \in {JobTestRun(fit.in.job_list, fit.in.node_list,
                             fit.in.use_total_gres, fit.in.core_bitmap,
                             fit.in.core_start_bit, fit.in.core_end_bit,
                             fit.in.disable_binding)} :
          FitDone("job_test", r.core_cnt, r.node_list, r.core_bitmap,
                  fit.in.step_list, r.trace, NoSock)

\* the select plugin always passes its core bitmap to gres_job_test2
gres_job_test2 ==
    /\ fit.pc = "ready"
    /\ ~fit.in.core_bitmap.null
    /\ ~NeedsSockTopo(fit.in.job_list, fit.in.node_list, fit.in.core_bitmap)
    /\ \E r \in {JobTest2Run(fit.in.job_list, fit.in.node_list,
                              fit.in.use_total_gres, fit.in.core_bitmap)} :
          FitDone("job_test2", Len(r.sock_gres_list), fit.in.node_list,
                  r.core_bitmap, fit.in.step_list, NoTrace, r.sock_gres_list)

gres_step_test ==
    /\ fit.pc = "ready"
    /\ \E r \in {StepTestRun(fit.in.step_list, fit.in.job_list,
                              fit.in.node_offset, fit.in.first_step_node,
                              fit.in.cpus_per_task, fit.in.max_rem_nodes,
                              fit.in.ignore_alloc)} :
          FitDone("step_test", r.core_cnt, fit.in.node_list,
                  fit.in.core_bitmap, r.step_list, NoTrace, NoSock)

InitFit ==
    /\ gres_list = <<>>
    /\ gres_conf_list = <<>>
    /\ gres_context = [id \in Kinds |->
                          [has_file |-> FALSE, has_type |-> FALSE,
                           total_cnt |-> 0]]
    /\ node_gres = <<>>
    /\ last = [op |-> "none", rc |-> SLURM_SUCCESS, n |-> 0, prev |-> "none"]
    /\ \/ \E nl \in FitNodeMenu, jl \in FitJobMenu, cb \in FitCoreMenu,
              f \in FitFlagMenu :
              fit = FitReady(FitInput(nl, jl, <<>>, cb, f[1], f[2], FALSE, 1,
                                      1, FALSE))
       \/ \E jl \in StepJobMenu, sl \in StepMenu, fsn \in BOOLEAN,
              cpt \in {0, 2}, mrn \in 1 .. 2, ia \in BOOLEAN :
              fit = FitReady(FitInput(<<>>, jl, sl, NullBitmap, FALSE, FALSE,
                                      fsn, cpt, mrn, ia))
    /\ lk = LockIdle
    /\ ser = SerIdle
    /\ reg = RegIdle
    /\ jv = JvIdle
    /\ cnf = CnfIdle
    /\ ld = LdIdle
    /\ ini = IniIdle
    /\ tl = TlIdle
    /\ rv = RvIdle
    /\ sk = SkIdle
    /\ pk = PkIdle
    /\ wt = WtIdle
    /\ gm = GmIdle

NextFit ==
    \/ gres_job_test
    \/ gres_job_test2
    \/ gres_step_test

SpecFit == InitFit /\ [][NextFit]_vars

(***************************************************************************)
(* Claims about the node ledger.                                           *)
(***************************************************************************)
NodeKinds == {gres_list[i].plugin_id : i \in 1 .. Len(gres_list)}

\* C1: for every node resource record, allocated_count <= available_count
\* after every public mutating operation (node validate, reconfigure,
\* dealloc_all), whatever operations and job allocations came before.
C1_AllocWithinAvail ==
    last.op \in {"validate", "reconfig", "dealloc_all"} =>
        \A id \in NodeKinds :
            GresData(gres_list, id).gres_cnt_alloc <=
                GresData(gres_list, id).gres_cnt_avail

\* C2: after node validate completes successfully, every record that has
\* per-unit topology has the sum of its topology entries' count_avail equal
\* to its available_count (the gres/mps record after its sync included).
C2_TopoSumIsAvail ==
    (last.op = "validate" /\ last.rc = SLURM_SUCCESS) =>
        \A id \in NodeKinds :
            LET gd == GresData(gres_list, id)
            IN gd.topo_cnt # 0 =>
                  SumAvail(gd.topo, gd.topo_cnt) = gd.gres_cnt_avail

\* the count of a kind that a reconfigure to new_gres asks for
RequestedCnt(new_gres, id) ==
    _get_gres_cnt(_build_gres_node_state, new_gres, id).gres_cnt_config

\* the count of a kind that the slurmd's records report
ReportedCnt(id) == _get_tot_gres_cnt(id, gres_conf_list).gres_cnt

\* C3: when node validate or reconfigure observes a count of a kind that is
\* below what is allocated to running jobs, the operation returns an error
\* and leaves the node's record of that kind exactly as it was.
C3_DecreaseBelowAllocRejected ==
    [][\A id \in Kinds :
          LET gd == GresData(gres_list, id)
              observed ==
                \/ /\ gres_node_config_validate
                   /\ ReportedCnt(id) < gd.gres_cnt_alloc
                \/ \E new_gres \in ConfigMenu :
                      /\ ReconfigWith(new_gres)
                      /\ RequestedCnt(new_gres, id) < gd.gres_cnt_alloc
          IN (gres_list # <<>> /\ observed) =>
                /\ last'.rc # SLURM_SUCCESS
                /\ GresData(gres_list', id) = gd]_vars


\* the kinds with device files whose declared count new_gres changes
ChangedFileKinds(new_gres) ==
    {id \in NodeKinds :
        /\ gres_context[id].has_file
        /\ RequestedCnt(new_gres, id) #
              GresData(gres_list, id).gres_cnt_config}

\* C12 as stated: reconfigure returns an error for any change of the
\* declared count of a kind that has device files, a change to zero included.
C12_AnyChangeRejected ==
    [][\A new_gres \in ConfigMenu :
          (ReconfigWith(new_gres) /\ ChangedFileKinds(new_gres) # {}) =>
              last'.rc # SLURM_SUCCESS]_vars

\* C12: reconfigure returns ESLURM_INVALID_GRES, and leaves the node's list
\* as it was, for a change of the declared count of a kind that has device
\* files to another count that is not zero.
C12_NonZeroChangeRejected ==
    [][\A new_gres \in ConfigMenu :
          (/\ ReconfigWith(new_gres)
           /\ \E id \in ChangedFileKinds(new_gres) :
                 RequestedCnt(new_gres, id) # 0) =>
              /\ last'.rc = ESLURM_INVALID_GRES
              /\ gres_list' = gres_list]_vars

C12_Witness == last.op = "reconfig" /\ last.rc = ESLURM_INVALID_GRES


\* the available count of a kind on a list, 0 when the list has no record
AvailOn(list, id) ==
    IF FindId(list, id) = 0 THEN 0 ELSE GresData(list, id).gres_cnt_avail

\* the topology of gd has one entry per device unit, the i-th bound to
\* exactly the i-th unit
OnePerUnit(gd, units) ==
    /\ gd.topo_cnt = units
    /\ \A i \in 1 .. units :
          /\ i <= Len(gd.topo)
          /\ ~gd.topo[i].gres_bitmap.null
          /\ gd.topo[i].gres_bitmap.bits = {i - 1}

\* C13: when a node validate or a reconfigure that succeeds changes the
\* available count of gres/gpu on a node that has gres/mps, the topology of
\* gres/mps has afterwards one entry per gpu, entry i bound to gpu i.
C13_SharedTopoRebuilt ==
    [][(/\ gres_node_config_validate \/ gres_node_reconfig
        /\ last'.rc = SLURM_SUCCESS
        /\ AvailOn(gres_list', gpu_plugin_id) #
              AvailOn(gres_list, gpu_plugin_id)
        /\ AvailOn(gres_list', gpu_plugin_id) # 0
        /\ AvailOn(gres_list', mps_plugin_id) # 0) =>
          OnePerUnit(GresData(gres_list', mps_plugin_id),
                     AvailOn(gres_list', gpu_plugin_id))]_vars


\* C14: the gres/mps rebuild of a node validate looks at the gres/gpu
\* record as that same call has validated it (the kinds are validated in the
\* order of gres_context, the sync comes after the last of them): after the
\* call the allocation bitmap of gres/mps has one bit per available gpu.
C14_SyncSeesValidatedGpu ==
    (/\ last.op = "validate"
     /\ AvailOn(gres_list, gpu_plugin_id) # 0
     /\ AvailOn(gres_list, mps_plugin_id) # 0) =>
        /\ ~GresData(gres_list, mps_plugin_id).gres_bit_alloc.null
        /\ bit_size(GresData(gres_list, mps_plugin_id).gres_bit_alloc) =
              AvailOn(gres_list, gpu_plugin_id)

\* a validate has left gpus and gres/mps on the node, and the gres/mps
\* topology is the one built for that many gpus
C14_Witness ==
    /\ last.op = "validate"
    /\ AvailOn(gres_list, mps_plugin_id) # 0
    /\ AvailOn(gres_list, gpu_plugin_id) # 0
    /\ OnePerUnit(GresData(gres_list, mps_plugin_id),
                  AvailOn(gres_list, gpu_plugin_id))


\* a is what ValidateCounts returned for the kind id: whether the call
\* goes on (updated_config) and rebuilds the kind's topology
RebuildsTopo(a, tot, id) ==
    /\ a.updated_config
    /\ ValidateResize(a.gd, id, tot.topo_cnt,
                      IF gres_id_shared(id) THEN tot.topo_cnt ELSE a.gres_cnt,
                      gres_context[id].has_file).rebuild_topo

RebuildsTopoOf(gd, tot, id, config_overrides) ==
    ~gd.node_feature /\ RebuildsTopo(ValidateCounts(gd, tot, config_overrides),
                                     tot, id)

\* the kinds whose topology a node validate of the list would rebuild
WouldRebuild(list, config_overrides) ==
    {id \in Kinds :
        RebuildsTopoOf(GresData(list, id),
                       _get_tot_gres_cnt(id, gres_conf_list), id,
                       config_overrides)}

\* C15 as stated: a node validate that is called again with the inputs of
\* the call before it (the same slurmd records, declared string and override
\* mode, no allocation in between) rebuilds no topology and leaves the
\* node's records, their counts included, as that call left them.
C15_ValidateTwiceSame ==
    [][\A config_overrides \in BOOLEAN :
          (/\ gres_node_config_validate
           /\ gres_list' = NodeConfigValidate(gres_list, gres_context,
                                              config_overrides).list) =>
              /\ NodeConfigValidate(gres_list', gres_context',
                                    config_overrides).list = gres_list'
              /\ WouldRebuild(gres_list', config_overrides) = {}]_vars

\* C15: a node validate that is called again with the inputs of the call
\* before it leaves the node's records, their counts included, as that call
\* left them.
C15_ValidateTwiceSameState ==
    [][\A config_overrides \in BOOLEAN :
          (/\ gres_node_config_validate
           /\ gres_list' = NodeConfigValidate(gres_list, gres_context,
                                              config_overrides).list) =>
              NodeConfigValidate(gres_list', gres_context',
                                 config_overrides).list = gres_list']_vars

\* a validate that followed a validate has found hardware
C15_Witness ==
    /\ last.op = "validate"
    /\ last.prev = "validate"
    /\ \E id \in NodeKinds :
          /\ GresData(gres_list, id).gres_cnt_found # NO_VAL64
          /\ GresData(gres_list, id).gres_cnt_found # 0



\* the kinds of which the slurmd reports more than the node declares
ExcessKinds ==
    {id \in NodeKinds :
        /\ ~GresData(gres_list, id).node_feature
        /\ GresData(gres_list, id).gres_cnt_config # NO_VAL64
        /\ _get_tot_gres_cnt(id, gres_conf_list).gres_cnt >
              GresData(gres_list, id).gres_cnt_config}

\* the excess is ignored: the declared count stays, the available count is
\* the declared one, and the found count is the declared one unless the
\* change was refused because units are in use
ExcessIgnored(old, new) ==
    /\ new.gres_cnt_config = old.gres_cnt_config
    /\ new.gres_cnt_avail = old.gres_cnt_config
    /\ new.gres_cnt_found \in {old.gres_cnt_config, old.gres_cnt_found}
    /\ new.gres_cnt_found = old.gres_cnt_found =>
          \/ old.gres_cnt_found = old.gres_cnt_config
          \/ old.gres_cnt_alloc # 0

\* the declared count is raised to what the slurmd reports
ExcessAdopted(id, new) ==
    /\ new.gres_cnt_config = _get_tot_gres_cnt(id, gres_conf_list).gres_cnt
    /\ new.gres_cnt_avail = new.gres_cnt_config

FitCalled(op) == fit.pc = "done" /\ fit.op = op
FitInState == [node_list |-> fit.in.node_list,
               core_bitmap |-> fit.in.core_bitmap,
               step_list |-> fit.in.step_list]

\* a node list without the topology core bitmaps
StripCores(node_list) ==
    [i \in 1 .. Len(node_list) |->
        [node_list[i] EXCEPT !.gres_data.topo =
            [j \in 1 .. Len(@) |-> [@[j] EXCEPT !.core_bitmap = NullBitmap]]]]

\* a step list without the running totals
StripTotals(step_list) ==
    [i \in 1 .. Len(step_list) |->
        [step_list[i] EXCEPT !.gres_data.total_gres = 0,
                             !.gres_data.gross_gres = 0]]

\* C4 as stated: a fit test (gres_job_test, gres_job_test2, gres_step_test)
\* that returns zero leaves the candidate core bitmap, the node state and the
\* step state exactly as they were before the call.
C4_ZeroHasNoSideEffects ==
    (fit.pc = "done" /\ fit.ret = 0) => fit.out = FitInState

\* C4, amended: a fit test that returns zero leaves every count, allocation
\* record and type record of the node and every request field of the step
\* unchanged; it may only remove cores from the candidate core bitmap, resize
\* the node's topology core bitmaps and change the step's running totals.
C4_ZeroKeepsCounts ==
    (fit.pc = "done" /\ fit.ret = 0) =>
        /\ StripCores(fit.out.node_list) = StripCores(fit.in.node_list)
        /\ fit.out.core_bitmap.null = fit.in.core_bitmap.null
        /\ fit.out.core_bitmap.size = fit.in.core_bitmap.size
        /\ fit.out.core_bitmap.bits \subseteq fit.in.core_bitmap.bits
        /\ StripTotals(fit.out.step_list) = StripTotals(fit.in.step_list)

\* a job test narrowed the candidate cores for one kind and then found the
\* next kind insufficient
C4_Witness ==
    /\ FitCalled("job_test")
    /\ fit.ret = 0
    /\ Len(fit.trace) = 2
    /\ fit.out.core_bitmap # fit.in.core_bitmap
    /\ fit.out.node_list # fit.in.node_list

\* C5: in every strategy of _job_test and in the per-type socket builder, a
\* kind whose allocated count exceeds its available count has nothing left:
\* a request for at least one unit is found insufficient there.
C5_UnderflowIsZero ==
    /\ FitCalled("job_test") =>
          \A k \in 1 .. Len(fit.trace) :
              LET t == fit.trace[k] IN
              (/\ ~t.use_total_gres
               /\ MinGresNode(t.job) # 0
               /\ t.node.gres_cnt_alloc > t.node.gres_cnt_avail)
                  => t.ret = 0
    /\ FitCalled("job_test2") =>
          \A k \in 1 .. Len(fit.sock) :
              LET node == GresData(fit.in.node_list, fit.sock[k].plugin_id)
              IN fit.in.use_total_gres \/
                     node.gres_cnt_alloc <= node.gres_cnt_avail

\* the node of the scenario: four gpu units, two bound to the low half of
\* the cores and two to the high half, one unit of the low half allocated
ScenarioNodes ==
    {<<[plugin_id |-> gpu_plugin_id, gres_data |-> TopoNode(topo)]>> :
        topo \in {PairedTopo(ScenarioCores, 1), SingleTopo(ScenarioCores, 1)}}

Scenario(per_node) ==
    /\ FitCalled("job_test")
    /\ fit.in.node_list \in ScenarioNodes
    /\ fit.in.job_list = <<JobRec(gpu_plugin_id, per_node, 0)>>
    /\ fit.in.core_bitmap = CoreRange(0, ScenarioCores - 1, ScenarioCores)
    /\ ~fit.in.use_total_gres
    /\ ~fit.in.disable_binding

\* C6 as stated: in the scenario a job asking for 3 units per node is found
\* insufficient (0).
C6_ThreeUnitsInsufficient == Scenario(3) => fit.ret = 0

\* C6, amended: in the scenario three units are free, so a job asking for 3
\* units per node fits and keeps every candidate core; only a job asking for
\* 4 units per node is found insufficient (0).
C6_ThreeUnitsFit ==
    /\ Scenario(3) => (fit.ret = ScenarioCores /\ fit.out = FitInState)
    /\ Scenario(4) => fit.ret = 0

C6_Witness == Scenario(3) /\ fit.ret # 0 /\ Len(fit.trace[1].chosen) >= 2

\* cores the entries picked for record k of the job can reach
Affinity(k) ==
    LET t == fit.trace[k] IN
    UNION {IF t.node.topo[t.chosen[i]].core_bitmap.null
           THEN 0 .. (ScenarioCores - 1)
           ELSE t.node.topo[t.chosen[i]].core_bitmap.bits :
              i \in 1 .. Len(t.chosen)}

\* the candidate cores after record k of the job was tested
CoresAfter(k) ==
    IF k < Len(fit.trace) THEN fit.trace[k + 1].cores
    ELSE fit.out.core_bitmap

\* C7: in the scenario a job asking for 2 units per node gets a nonzero core
\* count; and whenever the core selection for a kind that is not shared
\* returns a nonzero count, the candidate cores left are exactly the former
\* candidates within the affinity of the picked topology entries.
C7_CoresOutsideAffinityCleared ==
    /\ Scenario(2) => fit.ret # 0
    /\ FitCalled("job_test") =>
          \A k \in 1 .. Len(fit.trace) :
              LET t == fit.trace[k] IN
              (/\ t.strategy = "binding"
               /\ ~gres_id_shared(t.plugin_id)
               /\ ~t.cores.null
               /\ t.ret # 0)
                  => CoresAfter(k).bits = t.cores.bits \cap Affinity(k)

C7_Witness ==
    /\ Scenario(2)
    /\ fit.ret # 0
    /\ Len(fit.trace[1].chosen) = 2
    /\ fit.out.core_bitmap.bits = fit.in.core_bitmap.bits \cap Affinity(1)

\* what each topology entry counted by the pinned strategy has left
PinnedAvail(t) ==
    LET use_busy_dev == ~t.use_total_gres /\ t.node.gres_cnt_alloc # 0
    IN {TopoRemaining(t.node.topo[i], t.use_total_gres) :
           i \in {j \in 1 .. t.node.topo_cnt :
                     /\ ~WrongType(t.job, t.node.topo[j])
                     /\ ~(use_busy_dev /\ t.node.topo[j].cnt_alloc = 0)
                     /\ \/ t.node.topo[j].core_bitmap.null
                        \/ TopoCoreMatch(t.node.topo[j], t.cores, 0)}}

\* C8: when the cores were pinned by an earlier kind, a shared kind is found
\* insufficient exactly when the job's minimum exceeds the largest quantity
\* that a single matching topology entry has left.
C8_PinnedSharedUsesMax ==
    FitCalled("job_test") =>
        \A k \in 1 .. Len(fit.trace) :
            LET t == fit.trace[k] IN
            (t.strategy = "pinned" /\ gres_id_shared(t.plugin_id)) =>
                (t.ret = 0 <=>
                    \A q \in PinnedAvail(t) : MinGresNode(t.job) > q)

(***************************************************************************)
(* The registry mutex gres_context_lock.  The control flow of an entry     *)
(* point is a set of edges between its positions; act tells what the code  *)
(* does on the way: "lock", "unlock", "io" (a call that can block on a     *)
(* file, pipe or socket), "fatal" or plain computation ("skip").  Several  *)
(* edges from one position are the outcomes the data read can select.      *)
(***************************************************************************)
Edge(from, to, act) == [from |-> from, to |-> to, act |-> act]

gres_node_state_unpack_flow ==
    {Edge("entry", "unpack_error", "skip"),     \* safe_unpack16 fails, 3812
     Edge("entry", "return", "skip"),           \* rec_cnt == 0
     Edge("entry", "lock", "skip"),
     Edge("lock", "loop", "lock"),              \* 3818
     Edge("loop", "unpack_error", "skip"),      \* 3827-3836
     Edge("loop", "unlock", "skip"),
     Edge("unlock", "return", "unlock"),        \* 3864
     Edge("unpack_error", "return", "unlock")}  \* 3869

gres_step_state_unpack_flow ==
    {Edge("entry", "unpack_error", "skip"),     \* safe_unpack16 fails, 8619
     Edge("entry", "return", "skip"),
     Edge("entry", "lock", "skip"),
     Edge("lock", "loop", "lock"),              \* 8625
     Edge("loop", "unpack_error", "skip"),      \* 8635-8672
     Edge("loop", "unlock", "skip"),
     Edge("unlock", "return", "unlock"),        \* 8698
     Edge("unpack_error", "return", "unlock")}  \* 8705

gres_node_config_unpack_flow ==
    {Edge("entry", "unpack_error", "skip"),     \* 2105, 2107, 2110
     Edge("entry", "return", "skip"),           \* rec_cnt == 0
     Edge("entry", "lock", "skip"),
     Edge("lock", "loop", "lock"),              \* 2113
     Edge("loop", "unpack_error", "skip"),      \* 2117-2132
     Edge("loop", "unlock", "skip"),
     Edge("unlock", "return", "unlock"),        \* 2230
     Edge("unpack_error", "return", "unlock")}  \* 2239

gres_g_send_stepd_flow ==
    {Edge("entry", "write_context", "lock"),    \* 9515
     Edge("write_context", "unlock", "io"),     \* safe_write, 9519-9520
     Edge("write_context", "rwfail", "io"),
     Edge("unlock", "unlocked", "unlock"),      \* 9522
     Edge("unlocked", "return", "skip"),
     Edge("unlocked", "write_conf", "skip"),    \* 9524-9528
     Edge("write_conf", "return", "io"),        \* safe_write, 9530-9531
     Edge("write_conf", "rwfail", "io"),
     Edge("rwfail", "return", "unlock")}        \* 9538

gres_g_recv_stepd_flow ==
    {Edge("entry", "read_context", "lock"),     \* 9549
     Edge("read_context", "unpack_context", "io"),  \* safe_read, 9551-9554
     Edge("read_context", "rwfail", "io"),
     Edge("unpack_context", "rwfail", "skip"),  \* 9558-9559
     Edge("unpack_context", "unlock", "skip"),
     Edge("unpack_context", "read_conf", "skip"),
     Edge("read_conf", "unpack_conf", "io"),    \* safe_read, 9567-9570
     Edge("read_conf", "rwfail", "io"),
     Edge("unpack_conf", "rwfail", "skip"),     \* 9574-9575
     Edge("unpack_conf", "unlock", "skip"),
     Edge("unlock", "return", "unlock"),        \* 9581
     Edge("rwfail", "return", "unlock")}        \* 9590

gres_g_node_config_load_flow ==
    {Edge("entry", "return", "skip"),           \* cpu_cnt == 0, 1947-1951
     Edge("entry", "lock", "skip"),
     Edge("lock", "locked", "lock"),            \* 1958
     Edge("locked", "fini", "skip"),            \* gres_context_cnt == 0
     Edge("locked", "stat", "skip"),
     Edge("stat", "merge", "io"),               \* stat() fails, 1968
     Edge("stat", "parse", "io"),
     Edge("parse", "merge", "io"),              \* s_p_parse_file, 1979
     Edge("parse", "parse", "fatal"),           \* 1981
     Edge("merge", "fini", "skip"),             \* 2007-2034
     Edge("fini", "return", "unlock")}          \* 2039

gres_job_test_flow ==
    {Edge("entry", "return", "skip"),           \* a NULL list, 6797-6800
     Edge("entry", "lock", "skip"),
     Edge("lock", "test", "lock"),              \* 6805
     Edge("test", "unlock", "skip"),            \* 6806-6839
     Edge("unlock", "return", "unlock")}        \* 6840

EntryPoints ==
    {"gres_node_state_unpack", "gres_step_state_unpack",
     "gres_node_config_unpack", "gres_g_send_stepd", "gres_g_recv_stepd",
     "gres_g_node_config_load", "gres_job_test"}

Flow(ep) ==
    CASE ep = "gres_node_state_unpack" -> gres_node_state_unpack_flow
      [] ep = "gres_step_state_unpack" -> gres_step_state_unpack_flow
      [] ep = "gres_node_config_unpack" -> gres_node_config_unpack_flow
      [] ep = "gres_g_send_stepd" -> gres_g_send_stepd_flow
      [] ep = "gres_g_recv_stepd" -> gres_g_recv_stepd_flow
      [] ep = "gres_g_node_config_load" -> gres_g_node_config_load_flow
      [] ep = "gres_job_test" -> gres_job_test_flow
      [] OTHER -> {}

\* the edges thread t can take next with the given act
Edges(t, act) ==
    {e \in Flow(lk.th[t].ep) : e.from = lk.th[t].pc /\ e.act = act}

Goto(t, e) ==
    [lk EXCEPT !.th[t] = IF e.to = "return"
                         THEN [ep |-> "none", pc |-> "idle"]
                         ELSE [@ EXCEPT !.pc = e.to]]

LockFrame ==
    UNCHANGED <<gres_list, gres_conf_list, gres_context, node_gres, last, fit,
                ser, reg, jv, cnf, ld, ini, tl, rv, sk, pk, wt, gm>>

\* a thread calls an entry point
Call(t) ==
    /\ ~lk.exited
    /\ lk.th[t].pc = "idle"
    /\ \E ep \in EntryPoints :
          lk' = [lk EXCEPT !.th[t] = [ep |-> ep, pc |-> "entry"]]
    /\ LockFrame

Step(t) ==
    /\ ~lk.exited
    /\ \E e \in Edges(t, "skip") : lk' = Goto(t, e)
    /\ LockFrame

\* blocks while another thread holds the mutex
slurm_mutex_lock(t) ==
    /\ ~lk.exited
    /\ lk.owner = 0
    /\ \E e \in Edges(t, "lock") : lk' = [Goto(t, e) EXCEPT !.owner = t]
    /\ LockFrame

\* unlocking a mutex the caller does not hold is undefined: it may release
\* the holder's lock or leave the mutex as it is
slurm_mutex_unlock(t) ==
    /\ ~lk.exited
    /\ \E e \in Edges(t, "unlock") :
          \E o \in (IF lk.owner = t THEN {0} ELSE {0, lk.owner}) :
              lk' = [Goto(t, e) EXCEPT !.owner = o]
    /\ LockFrame

BlockingIo(t) ==
    /\ ~lk.exited
    /\ \E e \in Edges(t, "io") : lk' = Goto(t, e)
    /\ LockFrame

\* fatal() ends the process
Fatal(t) ==
    /\ ~lk.exited
    /\ Edges(t, "fatal") # {}
    /\ lk' = [lk EXCEPT !.exited = TRUE]
    /\ LockFrame

InitLock == Init

NextLock ==
    \E t \in Threads :
        \/ Call(t)
        \/ Step(t)
        \/ slurm_mutex_lock(t)
        \/ slurm_mutex_unlock(t)
        \/ BlockingIo(t)
        \/ Fatal(t)

SpecLock == InitLock /\ [][NextLock]_vars

(***************************************************************************)
(* Claims about the registry mutex.                                        *)
(***************************************************************************)
\* C9: a thread that is about to unlock the registry mutex holds it, and a
\* thread that has returned from an entry point does not hold it.
C9_MutexReleasedOnce ==
    \A t \in Threads :
        /\ Edges(t, "unlock") # {} => lk.owner = t
        /\ lk.th[t].pc = "idle" => lk.owner # t

\* C10: a thread that is about to do blocking I/O does not hold the registry
\* mutex.
C10_NoBlockingIoUnderMutex ==
    \A t \in Threads : Edges(t, "io") # {} => lk.owner # t

(***************************************************************************)
(* Save and restore of node, job and step state.                           *)
(*                                                                         *)
(* A buf_t is the sequence of the values packed into it.  A safe_unpack    *)
(* of a value fails (goto unpack_error) when the buffer holds no more      *)
(* values, which is what a truncated state file does.  protocol_version is *)
(* the rank of its tier: 0 is older than SLURM_MIN_PROTOCOL_VERSION.       *)
(***************************************************************************)
GRES_MAGIC == 1133130964
NO_VAL16 == 65534
SLURM_MIN_PROTOCOL_VERSION == 1
SLURM_20_11_PROTOCOL_VERSION == 2

\* the values of a buffer from the k-th on
Rest(buffer, k) ==
    IF k > Len(buffer) THEN <<>> ELSE SubSeq(buffer, k, Len(buffer))

\* gres_node_state_pack, the loop over the list: magic, plugin_id,
\* gres_cnt_avail and the size of gres_bit_alloc, nothing else
RECURSIVE NodePackLoop(_, _, _)
NodePackLoop(list, k, buffer) ==
    IF k > Len(list) THEN buffer
    ELSE NodePackLoop(list, k + 1,
            buffer \o <<GRES_MAGIC, list[k].plugin_id,
                        list[k].gres_data.gres_cnt_avail,
                        IF list[k].gres_data.gres_bit_alloc.null THEN 0
                        ELSE bit_size(list[k].gres_data.gres_bit_alloc)>>)

\* rec_cnt is written last, at the top of the buffer
NodeStatePack(list) == <<Len(list)>> \o NodePackLoop(list, 1, <<>>)

\* an unpack that does not note that gres_bit_alloc exists
NodeUnpackedNoBitmap(plugin_id, gres_cnt_avail, gres_bitmap_size) ==
    [plugin_id |-> plugin_id,
     gres_data |-> [_build_gres_node_state EXCEPT
                       !.gres_cnt_avail = gres_cnt_avail]]

\* the state gres_node_state_unpack builds from one record
NodeUnpacked(plugin_id, gres_cnt_avail, gres_bitmap_size) ==
    [plugin_id |-> plugin_id,
     gres_data |-> [_build_gres_node_state EXCEPT
        !.gres_cnt_avail = gres_cnt_avail,
        !.gres_bit_alloc = IF gres_bitmap_size # 0
                           THEN bit_alloc(gres_bitmap_size) ELSE @]]

\* one pass of the while loop of gres_node_state_unpack, rec_cnt already
\* decremented; st is [buf, list, rec_cnt, rc, error]
NodeUnpackRecord(st, context, protocol_version) ==
    IF protocol_version < SLURM_MIN_PROTOCOL_VERSION
    THEN [st EXCEPT !.rc = SLURM_ERROR, !.error = TRUE]
    ELSE IF st.buf[1] # GRES_MAGIC \/ Len(st.buf) < 4
    THEN [st EXCEPT !.rc = SLURM_ERROR, !.error = TRUE]
    ELSE IF st.buf[2] \notin context
    THEN [st EXCEPT !.buf = Rest(@, 5)]
    ELSE [st EXCEPT !.buf = Rest(@, 5),
                    !.list = Append(@, NodeUnpacked(st.buf[2], st.buf[3],
                                                    st.buf[4]))]

RECURSIVE NodeUnpackLoop(_, _, _)
NodeUnpackLoop(st, context, protocol_version) ==
    IF st.error \/ st.rec_cnt = 0 \/ Len(st.buf) = 0 THEN st
    ELSE NodeUnpackLoop(
            NodeUnpackRecord([st EXCEPT !.rec_cnt = @ - 1], context,
                             protocol_version),
            context, protocol_version)

\* gres_node_state_unpack(&list, buffer, node_name, protocol_version)
NodeStateUnpack(list, buffer, context, protocol_version) ==
    IF Len(buffer) = 0
    THEN [buf |-> buffer, list |-> list, rec_cnt |-> 0, rc |-> SLURM_ERROR,
          error |-> TRUE]
    ELSE NodeUnpackLoop([buf |-> Rest(buffer, 2), list |-> list,
                         rec_cnt |-> buffer[1], rc |-> SLURM_SUCCESS,
                         error |-> FALSE], context, protocol_version)

(***************************************************************************)
(* gres_job_state_t as it is saved.  A string is NullStr or its character  *)
(* codes; an array (gres_cnt_node_alloc, gres_bit_alloc, ...) is NullArray *)
(* or its node_cnt elements.  pack64_array writes one value, the array.    *)
(***************************************************************************)
NullStr == [null |-> TRUE, s |-> <<>>]
NullArray == [null |-> TRUE, v |-> <<>>]

\* gres_build_id: id += (name[i] << j), j = (j + 8) % 32; the names of the
\* model have at most five ASCII characters, so the uint32_t does not wrap
RECURSIVE BuildIdLoop(_, _, _, _)
BuildIdLoop(s, i, j, id) ==
    IF i > Len(s) THEN id
    ELSE BuildIdLoop(s, i + 1, (j + 8) % 32, id + s[i] * (2 ^ j))

gres_build_id(name) == IF name.null THEN 0 ELSE BuildIdLoop(name.s, 1, 0, 0)

\* pack8(1) and the array, or pack8(0); a pack64_array is one value
PackFlagged(arr, whole) ==
    IF arr.null THEN <<0>>
    ELSE IF whole THEN <<1, arr.v>> ELSE <<1>> \o arr.v

\* safe_unpack8(&has_more) and, if it is set, the n values that follow
UnpackFlagged(buf, n, whole) ==
    IF Len(buf) < 1 THEN [ok |-> FALSE, buf |-> buf, v |-> NullArray]
    ELSE IF buf[1] = 0
    THEN [ok |-> TRUE, buf |-> Rest(buf, 2), v |-> NullArray]
    ELSE IF whole /\ Len(buf) >= 2
    THEN [ok |-> TRUE, buf |-> Rest(buf, 3),
          v |-> [null |-> FALSE, v |-> buf[2]]]
    ELSE IF ~whole /\ Len(buf) >= 1 + n
    THEN [ok |-> TRUE, buf |-> Rest(buf, n + 2),
          v |-> [null |-> FALSE, v |-> SubSeq(buf, 2, n + 1)]]
    ELSE [ok |-> FALSE, buf |-> buf, v |-> NullArray]

\* the arrays of a job record in the order they are packed
JobArrays ==
    <<"gres_cnt_node_alloc", "gres_bit_alloc", "gres_bit_step_alloc",
      "gres_cnt_step_alloc">>

\* one record of gres_job_state_pack: the two tiers differ in
\* ntasks_per_gres only; the step arrays are packed only with details
JobPackRecord(rec, details, protocol_version) ==
    <<GRES_MAGIC, rec.plugin_id, rec.gres_data.cpus_per_gres,
      rec.gres_data.flags, rec.gres_data.gres_per_job,
      rec.gres_data.gres_per_node, rec.gres_data.gres_per_socket,
      rec.gres_data.gres_per_task, rec.gres_data.mem_per_gres>> \o
    (IF protocol_version >= SLURM_20_11_PROTOCOL_VERSION
     THEN <<rec.gres_data.ntasks_per_gres>> ELSE <<>>) \o
    <<rec.gres_data.total_gres, rec.gres_data.type_name,
      rec.gres_data.node_cnt>> \o
    PackFlagged(rec.gres_data.gres_cnt_node_alloc, TRUE) \o
    PackFlagged(rec.gres_data.gres_bit_alloc, FALSE) \o
    PackFlagged(IF details THEN rec.gres_data.gres_bit_step_alloc
                ELSE NullArray, FALSE) \o
    PackFlagged(IF details THEN rec.gres_data.gres_cnt_step_alloc
                ELSE NullArray, FALSE)

\* the loop of gres_job_state_pack; st is [buffer, rec_cnt]; a version
\* below SLURM_MIN_PROTOCOL_VERSION ends the loop
RECURSIVE JobPackLoop(_, _, _, _, _)
JobPackLoop(list, k, details, protocol_version, st) ==
    IF k > Len(list) \/ protocol_version < SLURM_MIN_PROTOCOL_VERSION THEN st
    ELSE JobPackLoop(list, k + 1, details, protocol_version,
            [buffer |-> st.buffer \o
                        JobPackRecord(list[k], details, protocol_version),
             rec_cnt |-> st.rec_cnt + 1])

PackDone(st) == <<st.rec_cnt>> \o st.buffer

JobStatePack(list, details, protocol_version) ==
    PackDone(JobPackLoop(list, 1, details, protocol_version,
                         [buffer |-> <<>>, rec_cnt |-> 0]))

\* an unpack of the fixed part that loses the type name
JobUnpackFixedNoType(buf, n) ==
    [plugin_id |-> buf[2],
     gres_data |->
        [cpus_per_gres |-> buf[3], flags |-> buf[4], gres_per_job |-> buf[5],
         gres_per_node |-> buf[6], gres_per_socket |-> buf[7],
         gres_per_task |-> buf[8], mem_per_gres |-> buf[9],
         ntasks_per_gres |-> IF n = 13 THEN buf[10] ELSE NO_VAL16,
         total_gres |-> buf[n - 2], type_name |-> NullStr,
         type_id |-> 0, node_cnt |-> buf[n],
         gres_cnt_node_alloc |-> NullArray, gres_bit_alloc |-> NullArray,
         gres_bit_step_alloc |-> NullArray,
         gres_cnt_step_alloc |-> NullArray, def_cpus_per_gres |-> 0]]

\* the xmalloc'ed gres_job_state_t filled from the fixed part of a record
\* of n values; the older tier sets ntasks_per_gres = NO_VAL16
JobUnpackFixed(buf, n) ==
    [plugin_id |-> buf[2],
     gres_data |->
        [cpus_per_gres |-> buf[3], flags |-> buf[4], gres_per_job |-> buf[5],
         gres_per_node |-> buf[6], gres_per_socket |-> buf[7],
         gres_per_task |-> buf[8], mem_per_gres |-> buf[9],
         ntasks_per_gres |-> IF n = 13 THEN buf[10] ELSE NO_VAL16,
         total_gres |-> buf[n - 2], type_name |-> buf[n - 1],
         type_id |-> gres_build_id(buf[n - 1]), node_cnt |-> buf[n],
         gres_cnt_node_alloc |-> NullArray, gres_bit_alloc |-> NullArray,
         gres_bit_step_alloc |-> NullArray,
         gres_cnt_step_alloc |-> NullArray, def_cpus_per_gres |-> 0]]

\* the four flagged arrays of a job record, k-th first
RECURSIVE JobUnpackArrays(_, _, _)
RECURSIVE JobArrayStore(_, _, _)
JobUnpackArrays(rec, buf, k) ==
    IF k > Len(JobArrays) THEN [ok |-> TRUE, buf |-> buf, rec |-> rec]
    ELSE JobArrayStore(rec, UnpackFlagged(buf, rec.gres_data.node_cnt, k = 1),
                       k)

JobArrayStore(rec, r, k) ==
    IF ~r.ok THEN [ok |-> FALSE, buf |-> r.buf, rec |-> rec]
    ELSE JobUnpackArrays([rec EXCEPT !.gres_data[JobArrays[k]] = r.v], r.buf,
                         k + 1)

\* an unpack for which a record of a kind that is not configured is an error
UnpackAppendFatal(st, r, context) ==
    IF ~r.ok \/ r.rec.plugin_id \notin context
    THEN [st EXCEPT !.rc = SLURM_ERROR, !.error = TRUE]
    ELSE [st EXCEPT !.buf = r.buf, !.list = Append(@, r.rec)]

\* the end of one pass of the unpack loops: unpack_error, or the record is
\* dropped (no plugin configured for it), or it is appended
UnpackAppend(st, r, context) ==
    IF ~r.ok THEN [st EXCEPT !.rc = SLURM_ERROR, !.error = TRUE]
    ELSE IF r.rec.plugin_id \notin context THEN [st EXCEPT !.buf = r.buf]
    ELSE [st EXCEPT !.buf = r.buf, !.list = Append(@, r.rec)]

\* one pass of the while loop of gres_job_state_unpack
JobUnpackRecord(st, context, n) ==
    IF n = 0 \/ st.buf[1] # GRES_MAGIC \/ Len(st.buf) < n
    THEN [st EXCEPT !.rc = SLURM_ERROR, !.error = TRUE]
    ELSE IF st.buf[n] > NO_VAL
    THEN [st EXCEPT !.rc = SLURM_ERROR, !.error = TRUE]
    ELSE UnpackAppend(st, JobUnpackArrays(JobUnpackFixed(st.buf, n),
                                          Rest(st.buf, n + 1), 1), context)

RECURSIVE JobUnpackLoop(_, _, _)
JobUnpackLoop(st, context, n) ==
    IF st.error \/ st.rec_cnt = 0 \/ Len(st.buf) = 0 THEN st
    ELSE JobUnpackLoop(JobUnpackRecord([st EXCEPT !.rec_cnt = @ - 1],
                                       context, n), context, n)

\* the number of values of the fixed part of a job record, 0 for a
\* protocol_version that is not supported
JobFixedLen(protocol_version) ==
    IF protocol_version >= SLURM_20_11_PROTOCOL_VERSION THEN 13
    ELSE IF protocol_version >= SLURM_MIN_PROTOCOL_VERSION THEN 12 ELSE 0

\* gres_job_state_unpack(&list, buffer, job_id, protocol_version)
JobStateUnpack(list, buffer, context, protocol_version) ==
    IF Len(buffer) = 0
    THEN [buf |-> buffer, list |-> list, rec_cnt |-> 0, rc |-> SLURM_ERROR,
          error |-> TRUE]
    ELSE JobUnpackLoop([buf |-> Rest(buffer, 2), list |-> list,
                        rec_cnt |-> buffer[1], rc |-> SLURM_SUCCESS,
                        error |-> FALSE], context,
                       JobFixedLen(protocol_version))

(***************************************************************************)
(* gres_step_state_t as it is saved.                                       *)
(***************************************************************************)
\* one record of gres_step_state_pack; type_name, type_id and gross_gres
\* are not among the values packed
StepPackRecord(rec) ==
    <<GRES_MAGIC, rec.plugin_id, rec.gres_data.cpus_per_gres,
      rec.gres_data.flags, rec.gres_data.gres_per_step,
      rec.gres_data.gres_per_node, rec.gres_data.gres_per_socket,
      rec.gres_data.gres_per_task, rec.gres_data.mem_per_gres,
      rec.gres_data.total_gres, rec.gres_data.node_cnt,
      rec.gres_data.node_in_use>> \o
    PackFlagged(rec.gres_data.gres_cnt_node_alloc, TRUE) \o
    PackFlagged(rec.gres_data.gres_bit_alloc, FALSE)

RECURSIVE StepPackLoop(_, _, _, _)
StepPackLoop(list, k, protocol_version, st) ==
    IF k > Len(list) \/ protocol_version < SLURM_MIN_PROTOCOL_VERSION THEN st
    ELSE StepPackLoop(list, k + 1, protocol_version,
            [buffer |-> st.buffer \o StepPackRecord(list[k]),
             rec_cnt |-> st.rec_cnt + 1])

StepStatePack(list, protocol_version) ==
    PackDone(StepPackLoop(list, 1, protocol_version,
                          [buffer |-> <<>>, rec_cnt |-> 0]))

\* the xmalloc'ed gres_step_state_t filled from the first 12 values of a
\* record; what is not unpacked stays zero
StepUnpackFixed(buf) ==
    [plugin_id |-> buf[2],
     gres_data |->
        [cpus_per_gres |-> buf[3], flags |-> buf[4], gres_per_step |-> buf[5],
         gres_per_node |-> buf[6], gres_per_socket |-> buf[7],
         gres_per_task |-> buf[8], mem_per_gres |-> buf[9],
         total_gres |-> buf[10], node_cnt |-> buf[11],
         node_in_use |-> IF Len(buf) >= 12 THEN buf[12] ELSE NullBitmap,
         gres_cnt_node_alloc |-> NullArray, gres_bit_alloc |-> NullArray,
         type_name |-> NullStr, type_id |-> 0, gross_gres |-> 0]]

\* unpack_bit_str_hex n times: its result is not tested, so an element the
\* buffer does not hold stays NULL
UnpackBits(buf, n) ==
    [null |-> FALSE,
     v |-> [i \in 1 .. n |-> IF i <= Len(buf) THEN buf[i] ELSE NullBitmap]]

\* safe_unpack8(&data_flag) and gres_bit_alloc[0 .. node_cnt - 1]
StepUnpackBitAlloc(rec, buf) ==
    IF Len(buf) < 1 THEN [ok |-> FALSE, buf |-> buf, rec |-> rec]
    ELSE IF buf[1] = 0 THEN [ok |-> TRUE, buf |-> Rest(buf, 2), rec |-> rec]
    ELSE [ok |-> TRUE, buf |-> Rest(buf, rec.gres_data.node_cnt + 2),
          rec |-> [rec EXCEPT !.gres_data.gres_bit_alloc =
                      UnpackBits(Rest(buf, 2), rec.gres_data.node_cnt)]]

\* safe_unpack8(&data_flag) and gres_cnt_node_alloc, then gres_bit_alloc
StepUnpackCnt(rec, r) ==
    IF ~r.ok THEN [ok |-> FALSE, buf |-> r.buf, rec |-> rec]
    ELSE StepUnpackBitAlloc(
            [rec EXCEPT !.gres_data.gres_cnt_node_alloc = r.v], r.buf)

\* one pass of the while loop of gres_step_state_unpack
StepUnpackRecord(st, context, protocol_version) ==
    IF protocol_version < SLURM_MIN_PROTOCOL_VERSION
    THEN [st EXCEPT !.rc = SLURM_ERROR, !.error = TRUE]
    ELSE IF st.buf[1] # GRES_MAGIC \/ Len(st.buf) < 11
    THEN [st EXCEPT !.rc = SLURM_ERROR, !.error = TRUE]
    ELSE IF st.buf[11] > NO_VAL
    THEN [st EXCEPT !.rc = SLURM_ERROR, !.error = TRUE]
    ELSE UnpackAppend(st,
            StepUnpackCnt(StepUnpackFixed(st.buf),
                          UnpackFlagged(Rest(st.buf, 13), 1, TRUE)), context)

RECURSIVE StepUnpackLoop(_, _, _)
StepUnpackLoop(st, context, protocol_version) ==
    IF st.error \/ st.rec_cnt = 0 \/ Len(st.buf) = 0 THEN st
    ELSE StepUnpackLoop(StepUnpackRecord([st EXCEPT !.rec_cnt = @ - 1],
                                         context, protocol_version),
                        context, protocol_version)

\* gres_step_state_unpack(&list, buffer, step_id, protocol_version)
StepStateUnpack(list, buffer, context, protocol_version) ==
    IF Len(buffer) = 0
    THEN [buf |-> buffer, list |-> list, rec_cnt |-> 0, rc |-> SLURM_ERROR,
          error |-> TRUE]
    ELSE StepUnpackLoop([buf |-> Rest(buffer, 2), list |-> list,
                         rec_cnt |-> buffer[1], rc |-> SLURM_SUCCESS,
                         error |-> FALSE], context, protocol_version)

(***************************************************************************)
(* The states that are saved.                                              *)
(***************************************************************************)
\* a node record as gres_node_config_validate leaves it: avail units, of
\* which the units in bits are allocated; found tells whether the slurmd
\* has reported (gres_cnt_found is NO_VAL64 until then)
SavedNode(id, avail, bits, found) ==
    [plugin_id |-> id,
     gres_data |-> [_build_gres_node_state EXCEPT
        !.gres_cnt_avail = avail,
        !.gres_cnt_config = IF found THEN avail ELSE @,
        !.gres_cnt_found = IF found THEN avail ELSE @,
        !.gres_cnt_alloc = Cardinality(bits),
        !.gres_bit_alloc = IF avail = 0 THEN @
                           ELSE [null |-> FALSE, size |-> avail,
                                 bits |-> bits]]]

NodePackParts(id) ==
    {<<>>} \cup
    {<<SavedNode(id, a, {}, FALSE)>> : a \in 0 .. MaxCount} \cup
    {<<SavedNode(id, MaxCount, b, TRUE)>> : b \in {{}, {0}}}

NodePackMenu ==
    {g \o n : g \in NodePackParts(gpu_plugin_id),
              n \in NodePackParts(nic_plugin_id)}

TypeName == [null |-> FALSE, s |-> <<97>>]

\* the units a job or step holds on each of its node_cnt nodes
HeldBits(node_cnt) ==
    [null |-> FALSE,
     v |-> [i \in 1 .. node_cnt |->
               [null |-> FALSE, size |-> MaxCount, bits |-> {0}]]]
HeldCnt(node_cnt) == [null |-> FALSE, v |-> [i \in 1 .. node_cnt |-> 1]]

\* a job record: the request, and what it holds once it runs (node_cnt > 0);
\* steps tells whether a step of it holds the units as well
SavedJob(id, type_name, ntasks_per_gres, node_cnt, steps) ==
    [plugin_id |-> id,
     gres_data |->
        [cpus_per_gres |-> 2, flags |-> 0, gres_per_job |-> 0,
         gres_per_node |-> 1, gres_per_socket |-> 0, gres_per_task |-> 0,
         mem_per_gres |-> 0, ntasks_per_gres |-> ntasks_per_gres,
         total_gres |-> Max(node_cnt, 1), type_name |-> type_name,
         type_id |-> gres_build_id(type_name), node_cnt |-> node_cnt,
         gres_cnt_node_alloc |-> IF node_cnt = 0 THEN NullArray
                                 ELSE HeldCnt(node_cnt),
         gres_bit_alloc |-> IF node_cnt = 0 \/ id # gpu_plugin_id
                            THEN NullArray ELSE HeldBits(node_cnt),
         gres_bit_step_alloc |-> IF steps /\ id = gpu_plugin_id
                                 THEN HeldBits(node_cnt) ELSE NullArray,
         gres_cnt_step_alloc |-> IF steps THEN HeldCnt(node_cnt)
                                 ELSE NullArray,
         def_cpus_per_gres |-> 0]]

JobPackParts(id) ==
    {<<>>} \cup
    {<<SavedJob(id, t, n, 0, FALSE)>> :
        t \in {NullStr, TypeName}, n \in {NO_VAL16, 2}} \cup
    {<<SavedJob(id, NullStr, NO_VAL16, MaxJobAlloc, st)>> : st \in BOOLEAN}
    \cup
    {<<[SavedJob(id, NullStr, NO_VAL16, 0, FALSE) EXCEPT
          !.gres_data.def_cpus_per_gres = 2]>>}

JobPackMenu ==
    {g \o n : g \in JobPackParts(gpu_plugin_id),
              n \in JobPackParts(nic_plugin_id)}

\* a step record: the request, and what it holds once it runs
SavedStep(id, type_name, node_cnt) ==
    [plugin_id |-> id,
     gres_data |->
        [cpus_per_gres |-> 0, flags |-> 0, gres_per_step |-> 0,
         gres_per_node |-> 1, gres_per_socket |-> 0, gres_per_task |-> 0,
         mem_per_gres |-> 0, total_gres |-> Max(node_cnt, 1),
         gross_gres |-> node_cnt, node_cnt |-> node_cnt,
         node_in_use |-> IF node_cnt = 0 THEN NullBitmap
                         ELSE bit_set_all(bit_alloc(node_cnt)),
         gres_cnt_node_alloc |-> IF node_cnt = 0 THEN NullArray
                                 ELSE HeldCnt(node_cnt),
         gres_bit_alloc |-> IF node_cnt = 0 \/ id # gpu_plugin_id
                            THEN NullArray ELSE HeldBits(node_cnt),
         type_name |-> type_name, type_id |-> gres_build_id(type_name)]]

StepPackParts(id) ==
    {<<>>} \cup
    {<<SavedStep(id, t, n)>> :
        t \in {NullStr, TypeName}, n \in {0, MaxJobAlloc}}

StepPackMenu ==
    {g \o n : g \in StepPackParts(gpu_plugin_id),
              n \in StepPackParts(nic_plugin_id)}

\* the kinds configured when the state is restored (GresTypes may have
\* changed since it was saved)
ContextMenu == {Kinds, {gpu_plugin_id, mps_plugin_id}, {nic_plugin_id}}

\* the state is to be saved: list is the state, into the list the caller
\* hands to the unpack
SerReady(what, list, into, details, protocol_version, context) ==
    [pc |-> "ready", what |-> what, list |-> list, into |-> into,
     details |-> details, protocol_version |-> protocol_version,
     context |-> context, buffer |-> <<>>, damaged |-> FALSE,
     out |-> <<>>, rc |-> SLURM_SUCCESS]

SerFrame ==
    UNCHANGED <<gres_list, gres_conf_list, gres_context, node_gres, last, fit,
                lk, reg, jv, cnf, ld, ini, tl, rv, sk, pk, wt, gm>>

\* the state is packed and the buffer is what there is to restore from
Packed(buffer) ==
    /\ ser' = [ser EXCEPT !.pc = "packed", !.buffer = buffer]
    /\ SerFrame

\* r is what the unpack made of the caller's list and what it returned
Unpacked(r) ==
    /\ ser' = [ser EXCEPT !.pc = "done", !.out = r.list, !.rc = r.rc]
    /\ SerFrame

SerAt(pc, what) == ser.pc = pc /\ ser.what = what

gres_node_state_pack ==
    /\ SerAt("ready", "node")
    /\ Packed(NodeStatePack(ser.list))

gres_node_state_unpack ==
    /\ SerAt("packed", "node")
    /\ \E r \in {NodeStateUnpack(ser.into, ser.buffer, ser.context,
                                 ser.protocol_version)} :
          Unpacked(r)

gres_job_state_pack ==
    /\ SerAt("ready", "job")
    /\ Packed(JobStatePack(ser.list, ser.details, ser.protocol_version))

gres_job_state_unpack ==
    /\ SerAt("packed", "job")
    /\ \E r \in {JobStateUnpack(ser.into, ser.buffer, ser.context,
                                ser.protocol_version)} :
          Unpacked(r)

gres_step_state_pack ==
    /\ SerAt("ready", "step")
    /\ Packed(StepStatePack(ser.list, ser.protocol_version))

gres_step_state_unpack ==
    /\ SerAt("packed", "step")
    /\ \E r \in {StepStateUnpack(ser.into, ser.buffer, ser.context,
                                 ser.protocol_version)} :
          Unpacked(r)

\* the saved state is cut short (a partial write of the state file)
Truncate ==
    /\ ser.pc = "packed"
    /\ ~ser.damaged
    /\ \E n \in 0 .. (Len(ser.buffer) - 1) :
          ser' = [ser EXCEPT !.buffer = SubSeq(@, 1, n), !.damaged = TRUE]
    /\ SerFrame

\* the magic of the first record is overwritten
Corrupt ==
    /\ ser.pc = "packed"
    /\ ~ser.damaged
    /\ Len(ser.buffer) >= 2
    /\ ser' = [ser EXCEPT !.buffer[2] = 0, !.damaged = TRUE]
    /\ SerFrame

\* the caller's list at the unpack: NULL, or a list that holds a record
IntoMenu(list) == IF list = <<>> THEN {<<>>} ELSE {<<>>, <<list[1]>>}

InitPack ==
    /\ gres_list = <<>>
    /\ gres_conf_list = <<>>
    /\ gres_context = [id \in Kinds |->
                          [has_file |-> FALSE, has_type |-> FALSE,
                           total_cnt |-> 0]]
    /\ node_gres = <<>>
    /\ last = [op |-> "none", rc |-> SLURM_SUCCESS, n |-> 0, prev |-> "none"]
    /\ fit = FitIdle
    /\ lk = LockIdle
    /\ reg = RegIdle
    /\ jv = JvIdle
    /\ cnf = CnfIdle
    /\ ld = LdIdle
    /\ ini = IniIdle
    /\ tl = TlIdle
    /\ rv = RvIdle
    /\ sk = SkIdle
    /\ pk = PkIdle
    /\ wt = WtIdle
    /\ gm = GmIdle
    /\ \E context \in ContextMenu,
          protocol_version \in 0 .. SLURM_20_11_PROTOCOL_VERSION :
          \/ \E list \in NodePackMenu : \E into \in IntoMenu(list) :
                ser = SerReady("node", list, into, FALSE, protocol_version,
                               context)
          \/ \E list \in JobPackMenu, details \in BOOLEAN :
                \E into \in IntoMenu(list) :
                   ser = SerReady("job", list, into, details,
                                  protocol_version, context)
          \/ \E list \in StepPackMenu : \E into \in IntoMenu(list) :
                ser = SerReady("step", list, into, FALSE, protocol_version,
                               context)

NextPack ==
    \/ gres_node_state_pack
    \/ gres_node_state_unpack
    \/ gres_job_state_pack
    \/ gres_job_state_unpack
    \/ gres_step_state_pack
    \/ gres_step_state_unpack
    \/ Truncate
    \/ Corrupt

SpecPack == InitPack /\ [][NextPack]_vars

(***************************************************************************)
(* Claims about save and restore.                                          *)
(***************************************************************************)
Restored(what) == ser.pc = "done" /\ ser.what = what

\* C11: a node or job state unpack that returns an error leaves the
\* caller's list as it was before the call.
C11_FailedUnpackLeavesList ==
    (Restored("node") \/ Restored("job")) /\ ser.rc # SLURM_SUCCESS
        => ser.out = ser.into

\* a state was saved and restored into a NULL list under a supported
\* protocol version, the buffer untouched, every saved kind still configured
RoundTrip(what) ==
    /\ Restored(what)
    /\ ~ser.damaged
    /\ ser.protocol_version >= SLURM_MIN_PROTOCOL_VERSION
    /\ ser.into = <<>>
    /\ \A i \in 1 .. Len(ser.list) : ser.list[i].plugin_id \in ser.context

\* what of a node record is written: the kind, the available count and the
\* size of the allocation bitmap
NodeSaved(rec) ==
    [plugin_id |-> rec.plugin_id,
     gres_cnt_avail |-> rec.gres_data.gres_cnt_avail,
     gres_bitmap_size |-> bit_size(rec.gres_data.gres_bit_alloc)]

\* the fields of a node record that are not written, with the allocation
\* bitmap's contents
NodeUnsaved(rec) ==
    [rec.gres_data EXCEPT
        !.gres_cnt_avail = 0,
        !.gres_bit_alloc = IF @.bits = {} THEN NullBitmap ELSE @]

\* C16 as stated: packing a node's state and unpacking the result yields a
\* node state equal to the original.
C16_NodeRoundTrip == RoundTrip("node") => ser.out = ser.list

\* C16: packing a node's state and unpacking the result succeeds and yields,
\* record by record, the original's kind, available count and allocation
\* bitmap size; every other field, the bitmap's contents included, is that
\* of a fresh node state (gres_cnt_found NO_VAL64), so the result equals the
\* original exactly when the original held nothing else.
C16_NodeRoundTripSaved ==
    RoundTrip("node") =>
        /\ ser.rc = SLURM_SUCCESS
        /\ Len(ser.out) = Len(ser.list)
        /\ \A i \in 1 .. Len(ser.list) :
              /\ NodeSaved(ser.out[i]) = NodeSaved(ser.list[i])
              /\ NodeUnsaved(ser.out[i]) = _build_gres_node_state
              /\ ser.out[i] = ser.list[i] <=>
                    NodeUnsaved(ser.list[i]) = _build_gres_node_state

\* a node state with a found count and an allocated unit went through a
\* save and restore
C16_Witness ==
    /\ RoundTrip("node")
    /\ \E i \in 1 .. Len(ser.list) :
          /\ ser.list[i].gres_data.gres_cnt_found # NO_VAL64
          /\ ser.list[i].gres_data.gres_bit_alloc.bits # {}
          /\ ~ser.out[i].gres_data.gres_bit_alloc.null
    /\ \E i \in 1 .. Len(ser.list) :
          /\ ser.list[i].gres_data.gres_cnt_found = NO_VAL64
          /\ ser.out[i] = ser.list[i]

\* a job record as a save under protocol_version, with or without details,
\* carries it: the older tier has no ntasks_per_gres, the step arrays are
\* written with details only, def_cpus_per_gres is never written
JobSaved(rec, details, protocol_version) ==
    [rec EXCEPT
        !.gres_data.ntasks_per_gres =
            IF protocol_version >= SLURM_20_11_PROTOCOL_VERSION THEN @
            ELSE NO_VAL16,
        !.gres_data.gres_bit_step_alloc = IF details THEN @ ELSE NullArray,
        !.gres_data.gres_cnt_step_alloc = IF details THEN @ ELSE NullArray,
        !.gres_data.def_cpus_per_gres = 0]

\* C17 as stated: packing a job's state and unpacking it with the same
\* protocol version yields a job state equal to the original, for both
\* supported tiers.
C17_JobRoundTrip == RoundTrip("job") => ser.out = ser.list

\* C17: packing a job's state and unpacking it with the same protocol
\* version succeeds and yields every record of the original with the fields
\* the format carries: under the older tier ntasks_per_gres comes back as
\* NO_VAL16, without details the per-step arrays come back absent, and
\* def_cpus_per_gres comes back as 0.
C17_JobRoundTripSaved ==
    RoundTrip("job") =>
        /\ ser.rc = SLURM_SUCCESS
        /\ Len(ser.out) = Len(ser.list)
        /\ \A i \in 1 .. Len(ser.list) :
              ser.out[i] = JobSaved(ser.list[i], ser.details,
                                    ser.protocol_version)

\* a running job whose step holds units, and a job with a type and a
\* tasks-per-unit value, went through a save and restore of either tier
C17_Witness ==
    /\ RoundTrip("job")
    /\ Len(ser.list) = 2
    /\ ser.list[1].gres_data.gres_bit_step_alloc # NullArray
    /\ ser.out[1].gres_data.gres_bit_alloc = ser.list[1].gres_data.gres_bit_alloc
    /\ ser.list[2].gres_data.ntasks_per_gres # NO_VAL16
    /\ ~ser.list[2].gres_data.type_name.null
    /\ ser.out[2].gres_data.type_id # 0
    /\ ser.protocol_version < SLURM_20_11_PROTOCOL_VERSION

\* the fields of a step record the claim names: the request fields, the
\* type, total_gres, node_in_use and the per-node allocations (gross_gres
\* left aside)
StepNamed(rec) == [rec EXCEPT !.gres_data.gross_gres = 0]

\* C18: packing a step's state and unpacking it with the same protocol
\* version succeeds and yields every record of the original with its request
\* fields, type, total, node-in-use bitmap and per-node allocations.
C18_StepRoundTrip ==
    RoundTrip("step") =>
        /\ ser.rc = SLURM_SUCCESS
        /\ Len(ser.out) = Len(ser.list)
        /\ \A i \in 1 .. Len(ser.list) :
              StepNamed(ser.out[i]) = StepNamed(ser.list[i])

\* the same with the type left aside as well
C18_StepRoundTripUntyped ==
    RoundTrip("step") =>
        /\ ser.rc = SLURM_SUCCESS
        /\ Len(ser.out) = Len(ser.list)
        /\ \A i \in 1 .. Len(ser.list) :
              StepNamed(ser.out[i]) =
                 [StepNamed(ser.list[i]) EXCEPT
                     !.gres_data.type_name = NullStr,
                     !.gres_data.type_id = 0]

\* a state with a record of a kind that is no longer configured was saved
\* and restored under a supported protocol version, the buffer untouched
SkippedOne ==
    /\ ser.pc = "done"
    /\ ~ser.damaged
    /\ ser.protocol_version >= SLURM_MIN_PROTOCOL_VERSION
    /\ \E i \in 1 .. Len(ser.list) : ser.list[i].plugin_id \notin ser.context

\* the saved records whose kind is configured at the restore
Configured == SelectSeq(ser.list, LAMBDA rec : rec.plugin_id \in ser.context)

\* out is the record rec of a what state as a save and restore returns it
RestoredAs(what, rec, out) ==
    IF what = "node" THEN /\ NodeSaved(out) = NodeSaved(rec)
                          /\ NodeUnsaved(out) = _build_gres_node_state
    ELSE IF what = "job"
    THEN out = JobSaved(rec, ser.details, ser.protocol_version)
    ELSE StepNamed(out) = [StepNamed(rec) EXCEPT
                              !.gres_data.type_name = NullStr,
                              !.gres_data.type_id = 0]

\* C19: an unpack of node, job or step state that meets a record whose kind
\* is not configured skips it and still succeeds: the records it appends to
\* the caller's list are the saved records of configured kinds, in order.
C19_UnknownKindSkipped ==
    SkippedOne =>
        /\ ser.rc = SLURM_SUCCESS
        /\ Len(ser.out) = Len(ser.into) + Len(Configured)
        /\ SubSeq(ser.out, 1, Len(ser.into)) = ser.into
        /\ \A i \in 1 .. Len(Configured) :
              RestoredAs(ser.what, Configured[i],
                         ser.out[Len(ser.into) + i])

\* the first of two records of a running job was skipped and the second
\* restored
C19_Witness ==
    /\ SkippedOne
    /\ ser.what = "job"
    /\ Len(ser.list) = 2
    /\ ser.list[1].plugin_id \notin ser.context
    /\ ser.list[1].gres_data.node_cnt > 0
    /\ ser.list[2].gres_data.node_cnt > 0
    /\ Len(ser.out) = 1
    /\ ser.out[1].plugin_id = ser.list[2].plugin_id
    /\ ser.out[1].gres_data.gres_cnt_node_alloc =
          ser.list[2].gres_data.gres_cnt_node_alloc

(***************************************************************************)
(* The registry of kinds.  gres_init builds gres_context[] from            *)
(* slurm_conf.gres_plugins (GresTypes); gres_add appends a kind for the    *)
(* node_features plugin.  A name is its character codes.                   *)
(***************************************************************************)
MaxNames == 3        \* names in GresTypes
MaxAdds == 2         \* calls of gres_add
MaxFinis == 1        \* calls of gres_fini

Str(s) == [null |-> FALSE, s |-> s]
GpuName == Str(<<103, 112, 117>>)
MpsName == Str(<<109, 112, 115>>)
NicName == Str(<<110, 105, 99>>)
\* "abcde" and "bbcdd": the fifth character is added to the first
AbcdeName == Str(<<97, 98, 99, 100, 101>>)
BbcddName == Str(<<98, 98, 99, 100, 100>>)
EmptyName == Str(<<>>)
NameMenu == {GpuName, MpsName, NicName, AbcdeName, BbcddName}

RECURSIVE NameLists(_)
NameLists(n) ==
    IF n = 0 THEN {<<>>}
    ELSE NameLists(n - 1) \cup
         {Append(l, name) : l \in {x \in NameLists(n - 1) : Len(x) = n - 1},
                            name \in NameMenu}

\* a pass that would keep the names in the order of GresTypes
SortOneAsGiven(st, one_name) ==
    [st EXCEPT !.sorted = Append(@, one_name),
               !.have_gpu = @ \/ one_name = GpuName,
               !.have_mps = @ \/ one_name = MpsName]

\* lines 496-514, one name: "mps" is held back until "gpu" has been seen
SortOne(st, one_name) ==
    IF one_name = MpsName
    THEN [st EXCEPT !.have_mps = TRUE,
                    !.append_mps = @ \/ ~st.have_gpu,
                    !.sorted = IF st.have_gpu THEN Append(@, one_name) ELSE @]
    ELSE IF one_name = GpuName
    THEN [st EXCEPT !.have_gpu = TRUE, !.sorted = Append(@, one_name)]
    ELSE [st EXCEPT !.sorted = Append(@, one_name)]

RECURSIVE SortLoop(_, _, _)
SortLoop(names, i, st) ==
    IF i > Len(names) THEN st
    ELSE SortLoop(names, i + 1, SortOne(st, names[i]))

\* lines 491-519: [sorted, have_gpu, have_mps, append_mps, fatal]
SortFinish(st) ==
    IF ~st.append_mps THEN st
    ELSE IF ~st.have_gpu THEN [st EXCEPT !.fatal = TRUE]
    ELSE [st EXCEPT !.sorted = Append(@, MpsName)]

SortNames(names) ==
    SortFinish(SortLoop(names, 1,
                        [sorted |-> <<>>, have_gpu |-> FALSE,
                         have_mps |-> FALSE, append_mps |-> FALSE,
                         fatal |-> FALSE]))

\* _add_gres_context: the new entry (the caller has excluded an empty name)
_add_gres_context(context, gres_name) ==
    Append(context, [gres_name |-> gres_name,
                     plugin_id |-> gres_build_id(gres_name)])

\* the index of the entry of that name, 0 if none
_gres_name_context(context, gres_name) ==
    IF \E i \in 1 .. Len(context) : context[i].gres_name = gres_name
    THEN CHOOSE i \in 1 .. Len(context) : context[i].gres_name = gres_name
    ELSE 0

\* lines 522-539: a name that is there already is ignored
RECURSIVE AddLoop(_, _, _)
AddLoop(context, sorted, i) ==
    IF i > Len(sorted) THEN context
    ELSE AddLoop(IF _gres_name_context(context, sorted[i]) # 0 THEN context
                 ELSE _add_gres_context(context, sorted[i]),
                 sorted, i + 1)

\* lines 542-553: two entries have the same plugin_id
DuplicateId(context) ==
    \E i, j \in 1 .. Len(context) :
        i < j /\ context[i].plugin_id = context[j].plugin_id

\* fini (563-573): gres/mps needs select/cons_tres
InitFini(r) ==
    IF r.have_mps /\ ~r.cons_tres THEN [r EXCEPT !.exited = TRUE]
    ELSE [r EXCEPT !.init_run = TRUE]

\* lines 522-560 for the sorted names of st
InitBuild(r, st, context) ==
    IF DuplicateId(context)
    THEN [r EXCEPT !.exited = TRUE, !.have_gpu = st.have_gpu,
                   !.have_mps = st.have_mps]
    ELSE InitFini([r EXCEPT !.gres_context = context,
                            !.gres_context_cnt = Len(context),
                            !.have_gpu = st.have_gpu,
                            !.have_mps = st.have_mps])

InitSorted(r, st) ==
    IF st.fatal THEN [r EXCEPT !.exited = TRUE, !.gres_context_cnt = 0,
                               !.have_gpu = st.have_gpu,
                               !.have_mps = st.have_mps]
    ELSE InitBuild(r, st, AddLoop(<<>>, st.sorted, 1))

\* gres_init() on the registry r
GresInit(r) ==
    IF r.init_run /\ r.gres_context_cnt >= 0 THEN r
    ELSE IF r.gres_context_cnt >= 0 THEN InitFini(r)
    ELSE IF r.gres_plugins = <<>>
    THEN InitFini([r EXCEPT !.gres_context_cnt = 0])
    ELSE InitSorted(r, SortNames(r.gres_plugins))

\* gres_add(gres_name) on the registry r
GresAdd(r, gres_name) ==
    IF _gres_name_context(r.gres_context, gres_name) # 0 THEN r
    ELSE IF gres_name = EmptyName THEN [r EXCEPT !.exited = TRUE]
    ELSE [r EXCEPT !.gres_context =
                       _add_gres_context(r.gres_context, gres_name),
                   !.gres_context_cnt = @ + 1]

RegFrame ==
    UNCHANGED <<gres_list, gres_conf_list, gres_context, node_gres, last, fit,
                lk, ser, jv, cnf, ld, ini, tl, rv, sk, pk, wt, gm>>

gres_init ==
    /\ ~reg.exited
    /\ reg' = GresInit(reg)
    /\ RegFrame

\* gres_add on the registry r.  With the registry not built
\* (gres_context_cnt = -1) the loop of 605-608 has nothing to compare and
\* _add_gres_context resizes gres_context to no entry and writes the new one
\* at gres_context[-1], outside of it: the process ends there, or it goes on
\* with the entry lost and gres_context_cnt = 0.
AddOutcomes(r, gres_name) ==
    IF r.gres_context_cnt < 0 /\ gres_name # EmptyName
    THEN {[r EXCEPT !.exited = TRUE], [r EXCEPT !.gres_context_cnt = 0]}
    ELSE {GresAdd(r, gres_name)}

gres_add ==
    /\ ~reg.exited
    /\ reg.adds < MaxAdds
    /\ \E gres_name \in NameMenu \cup {EmptyName} :
          \E r \in AddOutcomes(reg, gres_name) :
              reg' = [r EXCEPT !.adds = reg.adds + 1]
    /\ RegFrame

\* gres_fini() on the registry r
GresFini(r) ==
    IF r.gres_context_cnt < 0 THEN r
    ELSE [r EXCEPT !.init_run = FALSE, !.gres_context = <<>>,
                   !.gres_context_cnt = 0 - 1]

gres_fini ==
    /\ ~reg.exited
    /\ reg.finis < MaxFinis
    /\ reg' = [GresFini(reg) EXCEPT !.finis = reg.finis + 1]
    /\ RegFrame

InitReg ==
    /\ gres_list = <<>>
    /\ gres_conf_list = <<>>
    /\ gres_context = [id \in Kinds |->
                          [has_file |-> FALSE, has_type |-> FALSE,
                           total_cnt |-> 0]]
    /\ node_gres = <<>>
    /\ last = [op |-> "none", rc |-> SLURM_SUCCESS, n |-> 0, prev |-> "none"]
    /\ fit = FitIdle
    /\ lk = LockIdle
    /\ ser = SerIdle
    /\ jv = JvIdle
    /\ cnf = CnfIdle
    /\ ld = LdIdle
    /\ ini = IniIdle
    /\ tl = TlIdle
    /\ rv = RvIdle
    /\ sk = SkIdle
    /\ pk = PkIdle
    /\ wt = WtIdle
    /\ gm = GmIdle
    /\ \E gres_plugins \in NameLists(MaxNames), cons_tres \in BOOLEAN :
          reg = [gres_plugins |-> gres_plugins, cons_tres |-> cons_tres,
                 init_run |-> FALSE, gres_context_cnt |-> 0 - 1,
                 gres_context |-> <<>>, have_gpu |-> FALSE,
                 have_mps |-> FALSE, exited |-> FALSE, adds |-> 0,
                 finis |-> 0]

NextInit ==
    \/ gres_init
    \/ gres_add
    \/ gres_fini

SpecInit == InitReg /\ [][NextInit]_vars

(***************************************************************************)
(* Claims about the registry.                                              *)
(***************************************************************************)
\* C29: after any sequence of gres_init and gres_add calls, no two kinds of
\* the registry have the same plugin_id.
C29_IdsUnique == ~reg.exited => ~DuplicateId(reg.gres_context)

\* the position of a name in the registry, 0 if it is not there
RegIndex(gres_name) == _gres_name_context(reg.gres_context, gres_name)

\* gres_init has returned and nothing was added since
InitCompleted == reg.init_run /\ ~reg.exited /\ reg.adds = 0

InGresTypes(gres_name) ==
    \E i \in 1 .. Len(reg.gres_plugins) : reg.gres_plugins[i] = gres_name

\* C30: when gres_init has completed, "mps" is in the registry only after
\* "gpu", whatever the order and repetition of the names of GresTypes; with
\* "mps" configured and "gpu" not, gres_init does not complete.
C30_MpsFollowsGpu ==
    /\ InitCompleted /\ RegIndex(MpsName) # 0 =>
          RegIndex(GpuName) # 0 /\ RegIndex(GpuName) < RegIndex(MpsName)
    /\ InitCompleted /\ InGresTypes(MpsName) => InGresTypes(GpuName)
    /\ InitCompleted =>
          \A name \in NameMenu : InGresTypes(name) <=> RegIndex(name) # 0

\* GresTypes named "mps" before "gpu", and "mps" twice, and gres_init has
\* completed with "mps" behind "gpu"
C30_Witness ==
    /\ InitCompleted
    /\ reg.gres_plugins = <<MpsName, GpuName, MpsName>>
    /\ reg.gres_context_cnt = 2
    /\ RegIndex(GpuName) = 1
    /\ RegIndex(MpsName) = 2

\* C37: whatever init, add and teardown calls came before, once gres_init
\* has returned (init_run is set) the registry holds every kind named in
\* GresTypes; a gres_add made while the registry was not built does not keep
\* the next gres_init from building it.
C37_InitBuildsRegistry ==
    reg.init_run /\ ~reg.exited =>
        \A name \in NameMenu : InGresTypes(name) => RegIndex(name) # 0

\* the same with no gres_add made while the registry was not built: sanity
\* of the model, gres_init after gres_fini builds the registry again
C37_BuiltUnlessAddedBefore ==
    [][reg'.init_run /\ ~reg'.exited /\ ~reg.init_run
       /\ reg.gres_context_cnt < 0 =>
           \A name \in NameMenu :
               InGresTypes(name) =>
                   _gres_name_context(reg'.gres_context, name) # 0]_vars

(***************************************************************************)
(* gres_job_state_validate.  A request string (tres_per_node, ...) is NULL *)
(* or its tokens "gres:name[:type][:count]"; a token is [name, type, cnt]  *)
(* with cnt the value _is_valid_number gives (1 when there is no count),   *)
(* or a token of a bad format.  The job asks for no ntasks_per_tres and no *)
(* tres_freq (NO_VAL16 and NULL).                                          *)
(***************************************************************************)
ESLURM_INVALID_GRES_TYPE == 2073
ESLURM_UNSUPPORTED_GRES == 2074

NullReq == [null |-> TRUE, toks |-> <<>>]
Req(toks) == [null |-> FALSE, toks |-> toks]
Tok(name, type, cnt) == [name |-> name, type |-> type, cnt |-> cnt,
                         bad |-> FALSE]
BadTok == [name |-> gpu_plugin_id, type |-> NullStr, cnt |-> 0, bad |-> TRUE]

\* the fields of a request, in the order gres_job_state_validate reads them
ReqFields == <<"cpus_per_tres", "tres_per_job", "tres_per_node",
               "tres_per_socket", "tres_per_task", "mem_per_tres">>

\* the field of gres_job_state_t a request string sets
JobField(f) ==
    CASE f = "cpus_per_tres" -> "cpus_per_gres"
      [] f = "tres_per_job" -> "gres_per_job"
      [] f = "tres_per_node" -> "gres_per_node"
      [] f = "tres_per_socket" -> "gres_per_socket"
      [] f = "tres_per_task" -> "gres_per_task"
      [] OTHER -> "mem_per_gres"

\* xmalloc(sizeof(gres_job_state_t)) as _get_next_job_gres fills it
NewJobGres(plugin_id, type) ==
    [plugin_id |-> plugin_id,
     gres_data |->
        [type_name |-> type, type_id |-> gres_build_id(type),
         cpus_per_gres |-> 0, def_cpus_per_gres |-> 0, flags |-> 0,
         gres_per_job |-> 0, gres_per_node |-> 0, gres_per_socket |-> 0,
         gres_per_task |-> 0, mem_per_gres |-> 0, ntasks_per_gres |-> 0,
         total_gres |-> 0]]

\* list_find_first(gres_list, gres_find_job_by_key, &job_search_key) with the
\* key of _get_next_job_gres, whose type_id is gres_build_id(type): 0 if none
FindJobKey(list, plugin_id, type_id) ==
    IF \E i \in 1 .. Len(list) : /\ list[i].plugin_id = plugin_id
                                 /\ list[i].gres_data.type_id = type_id
    THEN CHOOSE i \in 1 .. Len(list) :
            /\ list[i].plugin_id = plugin_id
            /\ list[i].gres_data.type_id = type_id
            /\ \A j \in 1 .. (i - 1) :
                  ~(/\ list[j].plugin_id = plugin_id
                    /\ list[j].gres_data.type_id = type_id)
    ELSE 0

\* the list with the record of the token found or appended
WithJobGres(list, tok) ==
    IF FindJobKey(list, tok.name, gres_build_id(tok.type)) # 0 THEN list
    ELSE Append(list, NewJobGres(tok.name, tok.type))

\* what a token adds to total_gres (lines 5183-5232); env holds the scalars
TotalOf(f, cnt, env) ==
    CASE f = "tres_per_job" -> cnt
      [] f = "tres_per_node" ->
            IF env.min_nodes # NO_VAL THEN U64(cnt * env.min_nodes) ELSE cnt
      [] f = "tres_per_socket" ->
            IF env.min_nodes # NO_VAL /\ env.sockets_per_node # NO_VAL16
            THEN U64(cnt * U32(env.min_nodes * env.sockets_per_node))
            ELSE IF env.num_tasks # NO_VAL /\ env.ntasks_per_socket # NO_VAL16
            THEN U64(cnt * ((env.num_tasks + env.ntasks_per_socket - 1) \div
                            env.ntasks_per_socket))
            ELSE cnt
      [] f = "tres_per_task" ->
            IF env.num_tasks # NO_VAL THEN U64(cnt * env.num_tasks) ELSE cnt
      [] OTHER -> 0

\* the body of the while loops at 5166-5245 for the record at i
SetJobField(list, i, f, cnt, env) ==
    [list EXCEPT ![i].gres_data =
        [@ EXCEPT !.flags = 0,
                  ![JobField(f)] = cnt,
                  !.total_gres = Max(@, TotalOf(f, cnt, env)),
                  !.ntasks_per_gres = env.ntasks_per_tres]]

SetJobGres(list, tok, f, env) ==
    SetJobField(list, FindJobKey(list, tok.name, gres_build_id(tok.type)), f,
                tok.cnt, env)

\* one string: st is [list, rc]; _get_next_job_gres until it returns NULL
RECURSIVE ParseField(_, _, _, _, _)
ParseField(st, toks, k, f, env) ==
    IF k > Len(toks) THEN st
    ELSE IF toks[k].bad \/ (toks[k].cnt # 0 /\ toks[k].name \notin Kinds)
    THEN [st EXCEPT !.rc = ESLURM_INVALID_GRES]
    ELSE IF toks[k].cnt = 0 THEN ParseField(st, toks, k + 1, f, env)
    ELSE ParseField([st EXCEPT !.list =
                        SetJobGres(WithJobGres(@, toks[k]), toks[k], f, env)],
                    toks, k + 1, f, env)

\* lines 5166-5245: the six strings in turn, a NULL string is passed over
RECURSIVE ParseFields(_, _, _, _)
ParseFields(st, req, n, env) ==
    IF n > Len(ReqFields) THEN st
    ELSE ParseFields(IF req[ReqFields[n]].null THEN st
                     ELSE ParseField(st, req[ReqFields[n]].toks, 1,
                                     ReqFields[n], env),
                     req, n + 1, env)

(***************************************************************************)
(* _test_gres_cnt: st is [ok, gd, env], gd the gres_job_state_t and env    *)
(* the caller's num_tasks, min_nodes, max_nodes, ntasks_per_node,          *)
(* ntasks_per_socket, sockets_per_node and cpus_per_task.  Each stage is   *)
(* passed over once a stage has returned -1.                               *)
(***************************************************************************)
Fail(st) == [st EXCEPT !.ok = FALSE]

\* 4547-4575: gres_per_job >= gres_per_node >= gres_per_socket, >= per_task
TestOrder(st) ==
    IF \/ /\ st.gd.gres_per_job # 0
          /\ \/ st.gd.gres_per_node # 0
                /\ st.gd.gres_per_node > st.gd.gres_per_job
             \/ st.gd.gres_per_task # 0
                /\ st.gd.gres_per_task > st.gd.gres_per_job
             \/ st.gd.gres_per_socket # 0
                /\ st.gd.gres_per_socket > st.gd.gres_per_job
       \/ /\ st.gd.gres_per_node # 0
          /\ \/ st.gd.gres_per_task # 0
                /\ st.gd.gres_per_task > st.gd.gres_per_node
             \/ st.gd.gres_per_socket # 0
                /\ st.gd.gres_per_socket > st.gd.gres_per_node
    THEN Fail(st) ELSE st

\* 4577-4592: what gres_per_socket and cpus_per_gres need
TestOptions(st) ==
    IF ~st.ok THEN st
    ELSE IF st.gd.gres_per_socket # 0 /\ st.env.sockets_per_node = NO_VAL16
    THEN Fail(st)
    ELSE IF /\ ~st.env.in_slurmctld
            /\ st.gd.cpus_per_gres # 0
            /\ st.env.cpus_per_task # NO_VAL16
    THEN Fail(st) ELSE st

\* a node count that would be accepted without looking at the limits
NodesUnchecked(st, req_nodes) ==
    [st EXCEPT !.env.min_nodes = req_nodes, !.env.max_nodes = req_nodes]

\* 4610-4621 with req_nodes = gres_per_job / gres_per_node
TestNodesIn(st, req_nodes) ==
    IF \/ st.env.min_nodes # NO_VAL /\ req_nodes < st.env.min_nodes
       \/ req_nodes > st.env.max_nodes
    THEN Fail(st)
    ELSE [st EXCEPT !.env.min_nodes = req_nodes, !.env.max_nodes = req_nodes]

\* 4599-4622
TestNodes(st) ==
    IF ~st.ok \/ st.gd.gres_per_job = 0 \/ st.gd.gres_per_node = 0 THEN st
    ELSE IF st.gd.gres_per_job % st.gd.gres_per_node # 0 THEN Fail(st)
    ELSE TestNodesIn(st, st.gd.gres_per_job \div st.gd.gres_per_node)

\* an IN/OUT scalar is set to req when it is not given (absent is the set of
\* values that stand for "not given") and must equal req when it is
Settle(st, name, absent, req) ==
    IF st.env[name] \in absent THEN [st EXCEPT !.env[name] = req]
    ELSE IF st.env[name] # req THEN Fail(st) ELSE st

\* 4628-4649
TestSockets(st) ==
    IF ~st.ok \/ st.gd.gres_per_node = 0 \/ st.gd.gres_per_socket = 0 THEN st
    ELSE IF st.gd.gres_per_node % st.gd.gres_per_socket # 0 THEN Fail(st)
    ELSE Settle(st, "sockets_per_node", {NO_VAL16},
                st.gd.gres_per_node \div st.gd.gres_per_socket)

\* 4654-4663
TestTasksPerGres(st) ==
    IF \/ ~st.ok
       \/ st.gd.ntasks_per_gres = 0
       \/ st.gd.ntasks_per_gres = NO_VAL16
       \/ st.env.num_tasks = NO_VAL
    THEN st
    ELSE IF st.env.num_tasks % st.gd.ntasks_per_gres # 0 THEN Fail(st)
    ELSE st

\* 4669-4698: gres_per_job against, or derived from, gres_per_task
TestTasks(st) ==
    IF ~st.ok \/ st.gd.gres_per_task = 0 THEN st
    ELSE IF st.gd.gres_per_job # 0
    THEN IF st.gd.gres_per_job % st.gd.gres_per_task # 0 THEN Fail(st)
         ELSE Settle(st, "num_tasks", {NO_VAL},
                     st.gd.gres_per_job \div st.gd.gres_per_task)
    ELSE IF st.env.num_tasks # NO_VAL
    THEN [st EXCEPT !.gd.gres_per_job =
                        U64(st.env.num_tasks * st.gd.gres_per_task)]
    ELSE Fail(st)

\* 4704-4726
TestTasksPerNode(st) ==
    IF ~st.ok \/ st.gd.gres_per_node = 0 \/ st.gd.gres_per_task = 0 THEN st
    ELSE IF st.gd.gres_per_node % st.gd.gres_per_task # 0 THEN Fail(st)
    ELSE Settle(st, "ntasks_per_node", {NO_VAL16, 0},
                st.gd.gres_per_node \div st.gd.gres_per_task)

\* 4732-4752
TestTasksPerSocket(st) ==
    IF ~st.ok \/ st.gd.gres_per_socket = 0 \/ st.gd.gres_per_task = 0 THEN st
    ELSE IF st.gd.gres_per_socket % st.gd.gres_per_task # 0 THEN Fail(st)
    ELSE Settle(st, "ntasks_per_socket", {NO_VAL16, 0},
                st.gd.gres_per_socket \div st.gd.gres_per_task)

\* 4754-4770 with the cpus_per_gres in force
TestCpusWith(st, cpus_per_gres) ==
    IF cpus_per_gres = 0 \/ st.gd.gres_per_task = 0 THEN st
    ELSE Settle(st, "cpus_per_task", {NO_VAL16, 0},
                cpus_per_gres * st.gd.gres_per_task)

TestCpus(st) ==
    IF ~st.ok THEN st
    ELSE TestCpusWith(st, IF st.gd.cpus_per_gres # 0 THEN st.gd.cpus_per_gres
                          ELSE st.gd.def_cpus_per_gres)

\* 4772-4784
TestJobNodes(st) ==
    IF ~st.ok \/ st.gd.gres_per_job = 0 THEN st
    ELSE IF /\ st.env.min_nodes # NO_VAL
            /\ st.gd.gres_per_job < st.env.min_nodes
    THEN Fail(st)
    ELSE IF /\ st.env.max_nodes # NO_VAL
            /\ st.gd.gres_per_job < st.env.max_nodes
    THEN [st EXCEPT !.env.max_nodes = st.gd.gres_per_job]
    ELSE st

_test_gres_cnt(gd, env) ==
    TestJobNodes(TestCpus(TestTasksPerSocket(TestTasksPerNode(TestTasks(
        TestTasksPerGres(TestSockets(TestNodes(TestOptions(TestOrder(
            [ok |-> TRUE, gd |-> gd, env |-> env]))))))))))

(***************************************************************************)
(* gres_job_state_validate(req, ..., &gres_list): [rc, list, env].         *)
(***************************************************************************)
\* 5110-5120: the task count a tres_per_task request implies
ImplicitTasks(req, env) ==
    IF /\ ~req.tres_per_task.null \/ env.ntasks_per_tres # NO_VAL16
       /\ env.num_tasks = NO_VAL
       /\ env.min_nodes # NO_VAL
       /\ env.min_nodes = env.max_nodes
    THEN IF env.ntasks_per_tres # NO_VAL16
         THEN [env EXCEPT !.num_tasks =
                              U32(env.min_nodes * env.ntasks_per_tres)]
         ELSE IF env.ntasks_per_node # NO_VAL16
         THEN [env EXCEPT !.num_tasks =
                              U32(env.min_nodes * env.ntasks_per_node)]
         ELSE IF env.cpus_per_task = NO_VAL16
         THEN [env EXCEPT !.num_tasks = env.min_nodes]
         ELSE env
    ELSE env

\* 5125-5128: the options select/cons_tres alone supports
NeedsConsTres(req) ==
    \/ ~req.cpus_per_tres.null
    \/ ~req.tres_per_job.null
    \/ ~req.tres_per_socket.null
    \/ ~req.tres_per_task.null
    \/ ~req.mem_per_tres.null

\* the string f is "" and there is a list: the field is to be cleared
Cleared(req, list, f) ==
    list # <<>> /\ ~req[f].null /\ req[f].toks = <<>>

\* a field after _clear_cpus_per_gres ... _clear_mem_per_gres, where asked for
ClearIf(req, list, f, val) == IF Cleared(req, list, f) THEN 0 ELSE val

\* a clearing that would leave total_gres alone
ClearRecordNotTotal(rec, req, list) ==
    [rec EXCEPT
        !.gres_data.cpus_per_gres = ClearIf(req, list, "cpus_per_tres", @),
        !.gres_data.gres_per_job = ClearIf(req, list, "tres_per_job", @),
        !.gres_data.gres_per_node = ClearIf(req, list, "tres_per_node", @),
        !.gres_data.gres_per_socket = ClearIf(req, list, "tres_per_socket", @),
        !.gres_data.gres_per_task = ClearIf(req, list, "tres_per_task", @),
        !.gres_data.mem_per_gres = ClearIf(req, list, "mem_per_tres", @)]

\* 5133-5158 on one record: total_gres, and every field whose string is ""
ClearRecord(rec, req, list) ==
    [rec EXCEPT
        !.gres_data.total_gres = 0,
        !.gres_data.cpus_per_gres = ClearIf(req, list, "cpus_per_tres", @),
        !.gres_data.gres_per_job = ClearIf(req, list, "tres_per_job", @),
        !.gres_data.gres_per_node = ClearIf(req, list, "tres_per_node", @),
        !.gres_data.gres_per_socket = ClearIf(req, list, "tres_per_socket", @),
        !.gres_data.gres_per_task = ClearIf(req, list, "tres_per_task", @),
        !.gres_data.mem_per_gres = ClearIf(req, list, "mem_per_tres", @)]

ClearFields(list, req) ==
    [i \in 1 .. Len(list) |-> ClearRecord(list[i], req, list)]

\* the strings left to parse: a string that cleared a field is set to NULL
AfterClear(req, list) ==
    [f \in DOMAIN req |-> IF Cleared(req, list, f) THEN NullReq ELSE req[f]]

\* 5349-5365: the record at k in the overlap entry e of its kind
OverSeen(e, typed, k, fresh) ==
    IF typed THEN [e EXCEPT !.with_model = TRUE,
                            !.merge = ~fresh /\ e.without_model]
    ELSE [e EXCEPT !.without_model = TRUE, !.without_inx = k,
                   !.merge = ~fresh /\ e.with_model]

OverInx(over, plugin_id) ==
    IF \E i \in 1 .. Len(over) : over[i].plugin_id = plugin_id
    THEN CHOOSE i \in 1 .. Len(over) : over[i].plugin_id = plugin_id
    ELSE 0

\* 5342-5365: [over, overlap_merge]
OverAt(vs, rec, k, i) ==
    IF i = 0
    THEN [vs EXCEPT !.over =
             Append(@, OverSeen([plugin_id |-> rec.plugin_id,
                                 with_model |-> FALSE,
                                 without_model |-> FALSE, without_inx |-> 0,
                                 merge |-> FALSE],
                                ~rec.gres_data.type_name.null, k, TRUE))]
    ELSE [vs EXCEPT !.over[i] =
             OverSeen(@, ~rec.gres_data.type_name.null, k, FALSE)]

OverUpdate(vs, rec, k) ==
    OverAt(vs, rec, k, OverInx(vs.over, rec.plugin_id))

Stop(vs, rc) == [vs EXCEPT !.rc = rc, !.stop = TRUE]

\* a check that would only see a gpu record that comes before the mps one
KindsCheckedInOrder(vs, rec, k) ==
    IF rec.plugin_id = mps_plugin_id /\ vs.have_gres_gpu
    THEN Stop(vs, ESLURM_INVALID_GRES)
    ELSE OverUpdate(vs, rec, k)

\* 5337-5365
KindsChecked(vs, rec, k) ==
    IF vs.have_gres_gpu /\ vs.have_gres_mps
    THEN Stop(vs, ESLURM_INVALID_GRES)
    ELSE OverUpdate(vs, rec, k)

\* 5316-5336: gres/mps only supports a per-node count
MpsChecked(vs, rec, k) ==
    IF rec.plugin_id # mps_plugin_id THEN KindsChecked(vs, rec, k)
    ELSE IF \/ rec.gres_data.gres_per_job # 0 /\ vs.env.max_nodes # 1
            \/ rec.gres_data.gres_per_socket # 0
               /\ vs.env.sockets_per_node # 1
            \/ rec.gres_data.gres_per_task # 0 /\ vs.env.num_tasks # 1
    THEN Stop([vs EXCEPT !.have_gres_mps = TRUE], ESLURM_INVALID_GRES)
    ELSE KindsChecked([vs EXCEPT !.have_gres_mps = TRUE], rec, k)

\* 5305-5366 for the record at k, r what _test_gres_cnt made of it
LoopRecord(vs, k, r) ==
    IF ~r.ok
    THEN Stop([vs EXCEPT !.list[k].gres_data = r.gd, !.env = r.env],
              ESLURM_INVALID_GRES)
    ELSE MpsChecked([vs EXCEPT !.list[k].gres_data = r.gd, !.env = r.env,
                               !.have_gres_gpu =
                                   @ \/ vs.list[k].plugin_id = gpu_plugin_id],
                    [vs.list[k] EXCEPT !.gres_data = r.gd], k)

RECURSIVE ValidateRecords(_, _)
ValidateRecords(vs, k) ==
    IF vs.stop \/ k > Len(vs.list) THEN vs
    ELSE ValidateRecords(
            LoopRecord(vs, k, _test_gres_cnt(vs.list[k].gres_data, vs.env)),
            k + 1)

\* _generic_job_state
_generic_job_state(job_state) ==
    /\ job_state.gres_per_job = 0
    /\ job_state.gres_per_node = 0
    /\ job_state.gres_per_socket = 0
    /\ job_state.gres_per_task = 0

\* a merge that would overwrite what the typed record asks for itself
PropagateAlways(rec, e, generic) ==
    IF rec.plugin_id # e.plugin_id THEN rec
    ELSE [rec EXCEPT !.gres_data.cpus_per_gres = generic.cpus_per_gres,
                     !.gres_data.mem_per_gres = generic.mem_per_gres]

\* 5393-5408: the generic values go to a record of the kind that has none
Propagate(rec, e, generic) ==
    IF rec.plugin_id # e.plugin_id THEN rec
    ELSE [rec EXCEPT
             !.gres_data.cpus_per_gres =
                 IF @ = 0 THEN generic.cpus_per_gres ELSE @,
             !.gres_data.mem_per_gres =
                 IF @ = 0 THEN generic.mem_per_gres ELSE @]

\* 5375-5410 for the overlap entry e; removed holds the records list_remove
\* took off the list
MergeEntry(ms, e) ==
    IF ~e.with_model \/ e.without_inx = 0 THEN ms
    ELSE IF ~_generic_job_state(ms.list[e.without_inx].gres_data)
    THEN [ms EXCEPT !.rc = ESLURM_INVALID_GRES_TYPE, !.stop = TRUE]
    ELSE [ms EXCEPT
             !.removed = @ \cup {e.without_inx},
             !.list = [k \in 1 .. Len(ms.list) |->
                          IF k = e.without_inx THEN ms.list[k]
                          ELSE Propagate(ms.list[k], e,
                                         ms.list[e.without_inx].gres_data)]]

RECURSIVE MergeLoop(_, _, _)
MergeLoop(ms, over, i) ==
    IF ms.stop \/ i > Len(over) THEN ms
    ELSE MergeLoop(MergeEntry(ms, over[i]), over, i + 1)

RECURSIVE Remaining(_, _, _)
Remaining(list, removed, k) ==
    IF k > Len(list) THEN <<>>
    ELSE IF k \in removed THEN Remaining(list, removed, k + 1)
    ELSE <<list[k]>> \o Remaining(list, removed, k + 1)

MergeDone(ms, env) ==
    [rc |-> ms.rc, list |-> Remaining(ms.list, ms.removed, 1), env |-> env]

\* 5367-5415 (tres_freq is NULL)
MergeOverlap(vs) ==
    IF \E i \in 1 .. Len(vs.over) : vs.over[i].merge
    THEN MergeDone(MergeLoop([list |-> vs.list, rc |-> vs.rc,
                              removed |-> {}, stop |-> FALSE], vs.over, 1),
                   vs.env)
    ELSE [rc |-> vs.rc, list |-> vs.list, env |-> vs.env]

\* 5291-5415: st is [list, rc] after the strings were parsed
ValidateParsed(st, env) ==
    IF st.rc # SLURM_SUCCESS \/ st.list = <<>>
    THEN [rc |-> st.rc, list |-> st.list, env |-> env]
    ELSE MergeOverlap(ValidateRecords(
            [list |-> st.list, env |-> env, rc |-> SLURM_SUCCESS,
             have_gres_gpu |-> FALSE, have_gres_mps |-> FALSE,
             over |-> <<>>, stop |-> FALSE], 1))

\* 5130-5245 with the task count settled
ValidateRequest(req, env, list) ==
    ValidateParsed(ParseFields([list |-> ClearFields(list, req),
                                rc |-> SLURM_SUCCESS],
                               AfterClear(req, list), 1, env), env)

\* ntasks_per_tres is a valid pointer in every call, so the return at 5108
\* is not taken
JobStateValidate(req, env, list) ==
    IF ~env.cons_tres /\ NeedsConsTres(req)
    THEN [rc |-> ESLURM_UNSUPPORTED_GRES, list |-> list,
          env |-> ImplicitTasks(req, env)]
    ELSE ValidateRequest(req, ImplicitTasks(req, env), list)

(***************************************************************************)
(* SpecJob: a job is submitted with a request and its scalars, and while   *)
(* the request is valid the controller updates it with one more string.    *)
(***************************************************************************)
MaxUpdates == 1

\* a type name, "t"
TypeT == Str(<<116>>)

\* the strings a job gives for each field; "" is Req(<<>>)
FieldMenu(f) ==
    CASE f = "cpus_per_tres" ->
            {Req(<<>>), Req(<<Tok(gpu_plugin_id, NullStr, 2)>>),
             Req(<<Tok(gpu_plugin_id, NullStr, 2),
                   Tok(gpu_plugin_id, TypeT, 1)>>)}
      [] f = "tres_per_job" ->
            {Req(<<>>), Req(<<Tok(gpu_plugin_id, NullStr, 4)>>),
             Req(<<Tok(gpu_plugin_id, NullStr, 3)>>)}
      [] f = "tres_per_node" ->
            {Req(<<>>), Req(<<Tok(gpu_plugin_id, NullStr, 2)>>),
             Req(<<Tok(gpu_plugin_id, TypeT, 2)>>),
             Req(<<Tok(mps_plugin_id, NullStr, 1)>>),
             Req(<<Tok(gpu_plugin_id, NullStr, 1),
                   Tok(mps_plugin_id, NullStr, 1)>>),
             Req(<<Tok(mps_plugin_id, NullStr, 1),
                   Tok(gpu_plugin_id, NullStr, 1)>>),
             Req(<<Tok(gpu_plugin_id, NullStr, 2),
                   Tok(gpu_plugin_id, TypeT, 1)>>),
             Req(<<BadTok>>)}
      [] f = "tres_per_socket" ->
            {Req(<<>>), Req(<<Tok(gpu_plugin_id, NullStr, 1)>>)}
      [] f = "tres_per_task" ->
            {Req(<<>>), Req(<<Tok(gpu_plugin_id, NullStr, 1)>>)}
      [] OTHER ->
            {Req(<<>>), Req(<<Tok(gpu_plugin_id, NullStr, 1)>>)}

NoRequest == [f \in {ReqFields[n] : n \in 1 .. Len(ReqFields)} |-> NullReq]

\* r with one more string given
OneMore(r) ==
    UNION {{[r EXCEPT ![f] = val] : val \in FieldMenu(f)} :
              f \in {g \in DOMAIN r : r[g].null}}

\* the requests with the strings of at most n fields given
RECURSIVE Requests(_)
Requests(n) ==
    IF n = 0 THEN {NoRequest}
    ELSE Requests(n - 1) \cup UNION {OneMore(r) : r \in Requests(n - 1)}

\* what a job is submitted with, and what an update gives
SubmitRequests == Requests(2)
UpdateRequests == Requests(1) \ {NoRequest}

\* the scalars of a job at submission
JobEnvs ==
    {env \in [num_tasks : {NO_VAL, 1, 2}, min_nodes : {NO_VAL, 1, 3},
              max_nodes : {NO_VAL, 1, 4}, ntasks_per_node : {NO_VAL16},
              ntasks_per_socket : {NO_VAL16},
              sockets_per_node : {NO_VAL16, 2}, cpus_per_task : {NO_VAL16},
              ntasks_per_tres : {NO_VAL16}, in_slurmctld : BOOLEAN,
              cons_tres : BOOLEAN] :
        env.min_nodes = NO_VAL \/ env.min_nodes <= env.max_nodes}

\* the list after line 5158 and the list after line 5289 of a call that
\* gets there
ClearedIn(req, env, list) ==
    IF ~env.cons_tres /\ NeedsConsTres(req) THEN list
    ELSE ClearFields(list, req)

ParsedIn(req, env, list) ==
    IF ~env.cons_tres /\ NeedsConsTres(req) THEN list
    ELSE ParseFields([list |-> ClearFields(list, req), rc |-> SLURM_SUCCESS],
                     AfterClear(req, list), 1, ImplicitTasks(req, env)).list

\* jv after gres_job_state_validate(req) returned r
Validated(j, req, r) ==
    [pc |-> IF r.rc = SLURM_SUCCESS THEN "valid" ELSE "rejected",
     req |-> req, env0 |-> j.env, list0 |-> j.list,
     cleared |-> ClearedIn(req, j.env, j.list),
     parsed |-> ParsedIn(req, j.env, j.list),
     list |-> r.list, env |-> r.env, rc |-> r.rc, updates |-> j.updates]

JobFrame ==
    UNCHANGED <<gres_list, gres_conf_list, gres_context, node_gres, last, fit,
                lk, ser, reg, cnf, ld, ini, tl, rv, sk, pk, wt, gm>>

\* job submission: the first gres_job_state_validate of the job
job_submit ==
    /\ jv.pc = "new"
    /\ \E req \in SubmitRequests :
          \E r \in {JobStateValidate(req, jv.env, jv.list)} :
             jv' = Validated(jv, req, r)
    /\ JobFrame

\* job update in the controller: one string is given, the others are NULL
job_update ==
    /\ jv.pc = "valid"
    /\ jv.env.in_slurmctld
    /\ jv.updates < MaxUpdates
    /\ \E req \in UpdateRequests :
          \E r \in {JobStateValidate(req, jv.env, jv.list)} :
             jv' = Validated([jv EXCEPT !.updates = @ + 1], req, r)
    /\ JobFrame

InitJob ==
    /\ gres_list = <<>>
    /\ gres_conf_list = <<>>
    /\ gres_context = [id \in Kinds |->
                          [has_file |-> FALSE, has_type |-> FALSE,
                           total_cnt |-> 0]]
    /\ node_gres = <<>>
    /\ last = [op |-> "none", rc |-> SLURM_SUCCESS, n |-> 0, prev |-> "none"]
    /\ fit = FitIdle
    /\ lk = LockIdle
    /\ ser = SerIdle
    /\ reg = RegIdle
    /\ cnf = CnfIdle
    /\ ld = LdIdle
    /\ ini = IniIdle
    /\ tl = TlIdle
    /\ rv = RvIdle
    /\ sk = SkIdle
    /\ pk = PkIdle
    /\ wt = WtIdle
    /\ gm = GmIdle
    /\ \E env \in JobEnvs :
          jv = [pc |-> "new", req |-> NoRequest, env0 |-> env, list0 |-> <<>>,
                cleared |-> <<>>, parsed |-> <<>>, list |-> <<>>,
                env |-> env, rc |-> SLURM_SUCCESS, updates |-> 0]

NextJob == job_submit \/ job_update

SpecJob == InitJob /\ [][NextJob]_vars

(***************************************************************************)
(* Claims about gres_job_state_validate                                    *)
(***************************************************************************)
\* the node count gres_per_job / gres_per_node of gd fits the node range
\* before the call, and is both limits after it
NodeCountDerived(gd, before, after) ==
    /\ gd.gres_per_job % gd.gres_per_node = 0
    /\ before.min_nodes = NO_VAL
       \/ gd.gres_per_job \div gd.gres_per_node >= before.min_nodes
    /\ gd.gres_per_job \div gd.gres_per_node <= before.max_nodes
    /\ after.min_nodes = gd.gres_per_job \div gd.gres_per_node
    /\ after.max_nodes = gd.gres_per_job \div gd.gres_per_node

C21_WitnessRejected ==
    /\ jv.pc = "rejected"
    /\ jv.rc = ESLURM_INVALID_GRES
    /\ \E i \in 1 .. Len(jv.parsed) :
          /\ jv.parsed[i].gres_data.gres_per_job = 3
          /\ jv.parsed[i].gres_data.gres_per_node = 2

\* a is at least b where both are set
AtLeast(a, b) == a = 0 \/ b = 0 \/ a >= b

\* gres_per_job >= gres_per_node >= gres_per_socket, and both of the first
\* two >= gres_per_task
CountsOrdered(gd) ==
    /\ AtLeast(gd.gres_per_job, gd.gres_per_node)
    /\ AtLeast(gd.gres_per_node, gd.gres_per_socket)
    /\ AtLeast(gd.gres_per_job, gd.gres_per_task)
    /\ AtLeast(gd.gres_per_node, gd.gres_per_task)

\* C22: every record of a valid request has its counts in order: per job
\* >= per node >= per socket, per job >= per task, per node >= per task,
\* for the counts that are set, a derived gres_per_job included.
C22_CountsOrdered ==
    jv.pc = "valid" =>
        \A i \in 1 .. Len(jv.list) : CountsOrdered(jv.list[i].gres_data)

HasKind(list, plugin_id) ==
    \E i \in 1 .. Len(list) : list[i].plugin_id = plugin_id

\* C23: a request whose records, once every string is parsed, include one
\* of gres/gpu and one of gres/mps is not valid, whichever was asked first.
C23_GpuAndMpsRejected ==
    (/\ jv.pc \in {"valid", "rejected"}
     /\ HasKind(jv.parsed, gpu_plugin_id)
     /\ HasKind(jv.parsed, mps_plugin_id))
    => jv.pc = "rejected" /\ jv.rc # SLURM_SUCCESS

\* "mps:1,gpu:1" is rejected: the record of gres/mps comes first
C23_Witness ==
    /\ jv.pc = "rejected"
    /\ jv.rc = ESLURM_INVALID_GRES
    /\ Len(jv.parsed) = 2
    /\ jv.parsed[1].plugin_id = mps_plugin_id
    /\ jv.parsed[2].plugin_id = gpu_plugin_id

\* "gpu:1,mps:1" is rejected: the record of gres/gpu comes first
C23_WitnessGpuFirst ==
    /\ jv.pc = "rejected"
    /\ jv.rc = ESLURM_INVALID_GRES
    /\ Len(jv.parsed) = 2
    /\ jv.parsed[1].plugin_id = gpu_plugin_id
    /\ jv.parsed[2].plugin_id = mps_plugin_id

\* the records at u and t of list are of one kind, u without a type and t
\* with one
Overlap(list, u, t) ==
    /\ list[u].plugin_id = list[t].plugin_id
    /\ list[u].gres_data.type_name.null
    /\ ~list[t].gres_data.type_name.null

\* list has no record of the kind without a type
UntypedRemoved(list, plugin_id) ==
    \A i \in 1 .. Len(list) :
        list[i].plugin_id = plugin_id => ~list[i].gres_data.type_name.null

\* the record of list that typed has become has the two ratios of ratios
TypedHas(list, typed, ratios) ==
    \E i \in 1 .. Len(list) :
        /\ list[i].plugin_id = typed.plugin_id
        /\ list[i].gres_data.type_id = typed.gres_data.type_id
        /\ list[i].gres_data.cpus_per_gres = ratios.cpus_per_gres
        /\ list[i].gres_data.mem_per_gres = ratios.mem_per_gres

\* the ratios of generic, but those typed asks for itself where it has them
FilledIn(typed, generic) ==
    [cpus_per_gres |-> IF typed.cpus_per_gres = 0 THEN generic.cpus_per_gres
                       ELSE typed.cpus_per_gres,
     mem_per_gres |-> IF typed.mem_per_gres = 0 THEN generic.mem_per_gres
                      ELSE typed.mem_per_gres]

\* C24 as stated: a valid request that names a kind both without and with
\* a type has no counts in the record without a type, that record is off
\* the list, and the records with a type have its cpus_per_gres and
\* mem_per_gres.
C24_RatiosPropagated ==
    jv.pc = "valid" =>
        \A u, t \in 1 .. Len(jv.parsed) :
            Overlap(jv.parsed, u, t) =>
                /\ _generic_job_state(jv.parsed[u].gres_data)
                /\ UntypedRemoved(jv.list, jv.parsed[u].plugin_id)
                /\ TypedHas(jv.list, jv.parsed[t], jv.parsed[u].gres_data)

\* C24: a valid request that names a kind both without and with a type has
\* no counts in the record without a type, that record is off the list,
\* and each record with a type has its cpus_per_gres and its mem_per_gres
\* where the record with a type has none of its own.
C24_RatiosFilledIn ==
    jv.pc = "valid" =>
        \A u, t \in 1 .. Len(jv.parsed) :
            Overlap(jv.parsed, u, t) =>
                /\ _generic_job_state(jv.parsed[u].gres_data)
                /\ UntypedRemoved(jv.list, jv.parsed[u].plugin_id)
                /\ TypedHas(jv.list, jv.parsed[t],
                            FilledIn(jv.parsed[t].gres_data,
                                     jv.parsed[u].gres_data))

\* cpus_per_tres "gpu:2" and tres_per_node "gpu:t:2": the record gpu:t has
\* got cpus_per_gres 2 and is alone on the list
C24_Witness ==
    /\ jv.pc = "valid"
    /\ Len(jv.parsed) = 2
    /\ Overlap(jv.parsed, 1, 2)
    /\ jv.parsed[1].gres_data.cpus_per_gres = 2
    /\ jv.parsed[2].gres_data.cpus_per_gres = 0
    /\ Len(jv.list) = 1
    /\ jv.list[1].gres_data.type_name = TypeT
    /\ jv.list[1].gres_data.cpus_per_gres = 2

\* tres_per_node "gpu:2,gpu:t:1": the record without a type has a count
C24_WitnessRejected ==
    /\ jv.pc = "rejected"
    /\ jv.rc = ESLURM_INVALID_GRES_TYPE
    /\ Len(jv.parsed) = 2
    /\ Overlap(jv.parsed, 1, 2)
    /\ jv.parsed[1].gres_data.gres_per_node = 2

\* the call was a job update that gave "" for the field f and nothing else,
\* and was not refused at line 5128
ClearingUpdate(f) ==
    /\ jv.pc \in {"valid", "rejected"}
    /\ jv.rc # ESLURM_UNSUPPORTED_GRES
    /\ jv.list0 # <<>>
    /\ jv.req = [NoRequest EXCEPT ![f] = Req(<<>>)]

ResetTo(f, gd, env) ==
    IF /\ f = "tres_per_job"
       /\ gd.gres_per_task # 0
       /\ env.num_tasks # NO_VAL
    THEN U64(env.num_tasks * gd.gres_per_task)
    ELSE 0

\* the values of the field once the call is over: a call that is rejected
\* may not have come to the record
ResetValues(f, gd, env) ==
    IF jv.pc = "valid" THEN {ResetTo(f, gd, env)}
    ELSE {0, ResetTo(f, gd, env)}

C25_WitnessDerivedAgain ==
    /\ ClearingUpdate("tres_per_job")
    /\ jv.pc = "valid"
    /\ Len(jv.list) = 1
    /\ jv.cleared[1].gres_data.gres_per_job = 0
    /\ jv.list[1].gres_data.gres_per_job = jv.list0[1].gres_data.gres_per_job
    /\ jv.list[1].gres_data.gres_per_job # 0

(***************************************************************************)
(* SpecConf: _node_config_init reads a declared string.  The string is its *)
(* characters (ASCII codes), so that strtok_r, strrchr and strtoll are     *)
(* what they are in C.  A uint64_t count is an integer modulo CntRange.    *)
(***************************************************************************)
CntRange == 32768
MaxParses == 2
MaxToks == 2

Cnt(x) == x % CntRange

\* strtok_r(s, sep) called until it returns NULL: the non-empty pieces
RECURSIVE Strtok(_, _, _, _)
Strtok(s, sep, i, cur) ==
    IF i > Len(s) THEN IF cur = <<>> THEN <<>> ELSE <<cur>>
    ELSE IF s[i] = sep
    THEN (IF cur = <<>> THEN <<>> ELSE <<cur>>) \o Strtok(s, sep, i + 1, <<>>)
    ELSE Strtok(s, sep, i + 1, Append(cur, s[i]))

\* strrchr(s, c): the index of the last c in s, 0 for NULL
strrchr(s, c) ==
    IF \E i \in 1 .. Len(s) : s[i] = c
    THEN CHOOSE i \in 1 .. Len(s) :
            s[i] = c /\ \A j \in (i + 1) .. Len(s) : s[j] # c
    ELSE 0

IsDigit(c) == c \in 48 .. 57

\* strtoll(s, &last_num, 10) of a string that starts with a digit:
\* [val, last_num]
RECURSIVE strtoll(_, _, _)
strtoll(s, i, val) ==
    IF i <= Len(s) /\ IsDigit(s[i])
    THEN strtoll(s, i + 1, Cnt(val * 10 + (s[i] - 48)))
    ELSE [val |-> val, last_num |-> SubSeq(s, i, Len(s))]

\* 1024^n as a uint64_t
RECURSIVE Pow1024(_)
Pow1024(n) == IF n = 0 THEN 1 ELSE Cnt(1024 * Pow1024(n - 1))

\* suffix_mult: 1 for no suffix, a power of 1024 for K, M, G, T, P (or k, m,
\* g, t, p), and no multiplier (NO_VAL64, here -1) for anything else
suffix_mult(suffix) ==
    IF suffix = <<>> THEN 1
    ELSE IF Len(suffix) # 1 THEN 0 - 1
    ELSE CASE suffix[1] \in {75, 107} -> Pow1024(1)
           [] suffix[1] \in {77, 109} -> Pow1024(2)
           [] suffix[1] \in {71, 103} -> Pow1024(3)
           [] suffix[1] \in {84, 116} -> Pow1024(4)
           [] suffix[1] \in {80, 112} -> Pow1024(5)
           [] OTHER -> 0 - 1

\* "no_consume"
NoConsume == <<110, 111, 95, 99, 111, 110, 115, 117, 109, 101>>

\* gres_add_type on the gres_node_state_t gd, whose type arrays are the
\* sequence types of [type_name, type_id, cnt_avail, cnt_alloc]
AddTypeNamed(gd, type, tmp_gres_cnt) ==
    IF type = NoConsume THEN [gd EXCEPT !.no_consume = TRUE]
    ELSE IF \E i \in 1 .. Len(gd.types) :
               gd.types[i].type_id = gres_build_id(Str(type))
    THEN [gd EXCEPT !.types =
             [i \in 1 .. Len(gd.types) |->
                 IF /\ gd.types[i].type_id = gres_build_id(Str(type))
                    /\ \A j \in 1 .. (i - 1) :
                          gd.types[j].type_id # gres_build_id(Str(type))
                 THEN [gd.types[i] EXCEPT
                          !.cnt_avail = Cnt(@ + tmp_gres_cnt)]
                 ELSE gd.types[i]]]
    ELSE [gd EXCEPT !.types =
             Append(@, [type_name |-> type,
                        type_id |-> gres_build_id(Str(type)),
                        cnt_avail |-> tmp_gres_cnt, cnt_alloc |-> 0])]

\* 2417-2424: gres_add_type for every piece of tok behind the name
RECURSIVE AddTypes(_, _, _, _)
AddTypes(gd, sub_toks, k, tmp_gres_cnt) ==
    IF k > Len(sub_toks) THEN gd
    ELSE AddTypes(AddTypeNamed(gd, sub_toks[k], tmp_gres_cnt), sub_toks,
                  k + 1, tmp_gres_cnt)

\* strcmp(tok, gres_name) = 0, and strncmp(tok, gres_name_colon, len) = 0
IsName(tok, gres_name) == tok = gres_name
HasNameColon(tok, gres_name) ==
    /\ Len(tok) > Len(gres_name)
    /\ SubSeq(tok, 1, Len(gres_name)) = gres_name
    /\ tok[Len(gres_name) + 1] = 58

\* 2392-2394: the socket binding "(...)" is cut off
CutParen(tok, paren) == IF paren = 0 THEN tok ELSE SubSeq(tok, 1, paren - 1)

\* ps is [gd, cnt, error, stop]: the record, gres_config_cnt, whether
\* error("Bad GRES configuration") was logged, whether the loop was left
Bad(ps) == [ps EXCEPT !.error = TRUE, !.stop = TRUE]

\* 2415-2424 with tmp_gres_cnt and what is left of tok
Counted(ps, tok, tmp_gres_cnt) ==
    [ps EXCEPT !.cnt = Cnt(@ + tmp_gres_cnt),
               !.gd = AddTypes(@, Strtok(tok, 58, 1, <<>>), 2, tmp_gres_cnt)]

\* 2407-2413 with what strtoll returned and the multiplier of the suffix
Multiplied(ps, tok, num, val, mult) ==
    IF mult # 0 - 1
    THEN Counted(ps, SubSeq(tok, 1, num - 1), Cnt(val * mult))
    ELSE Bad(ps)

Numbered(ps, tok, num, r) ==
    Multiplied(ps, tok, num, r.val, suffix_mult(r.last_num))

\* 2395-2413 with num = strrchr(tok, ':')
AtNum(ps, tok, num) ==
    IF num = 0 THEN Bad(ps)
    ELSE IF num = Len(tok) \/ ~IsDigit(tok[num + 1])
    THEN Counted(ps, tok, 1)
    ELSE Numbered(ps, tok, num, strtoll(SubSeq(tok, num + 1, Len(tok)), 1, 0))

ColonToken(ps, tok) == AtNum(ps, tok, strrchr(tok, 58))

\* 2387-2425: the body of the loop for the token tok
OneToken(ps, tok, gres_name) ==
    IF IsName(tok, gres_name) THEN [ps EXCEPT !.cnt = 1, !.stop = TRUE]
    ELSE IF HasNameColon(tok, gres_name)
    THEN ColonToken(ps, CutParen(tok, strrchr(tok, 40)))
    ELSE ps

RECURSIVE TokenLoop(_, _, _, _)
TokenLoop(ps, toks, k, gres_name) ==
    IF ps.stop \/ k > Len(toks) THEN ps
    ELSE TokenLoop(OneToken(ps, toks[k], gres_name), toks, k + 1, gres_name)

ZeroAvail(gd) ==
    [gd EXCEPT !.types = [i \in 1 .. Len(gd.types) |->
                             [gd.types[i] EXCEPT !.cnt_avail = 0]]]

CntStored(ps) ==
    [gd |-> [ps.gd EXCEPT !.gres_cnt_config = ps.cnt], error |-> ps.error]

\* _get_gres_cnt of a string that is not NULL: [gd, error]
GetGresCntOf(gd, orig_config, gres_name) ==
    CntStored(TokenLoop([gd |-> ZeroAvail(gd), cnt |-> 0, error |-> FALSE,
                         stop |-> FALSE],
                        Strtok(orig_config, 44, 1, <<>>), 1, gres_name))

\* 2512-2526 (the record has no bitmap)
ConfigInitDone(r, total_cnt) ==
    [rc |-> SLURM_SUCCESS,
     gd |-> [r.gd EXCEPT !.gres_cnt_avail = Max(@, r.gd.gres_cnt_config)],
     error |-> r.error,
     total_cnt |-> Cnt(total_cnt + r.gd.gres_cnt_config)]

\* _node_config_init: [rc, gd, error, total_cnt]
NodeConfigInitOf(gd, orig_config, gres_name, total_cnt) ==
    IF orig_config = <<>>
    THEN [rc |-> SLURM_SUCCESS, gd |-> [gd EXCEPT !.gres_cnt_config = 0],
          error |-> FALSE, total_cnt |-> total_cnt]
    ELSE ConfigInitDone(GetGresCntOf(gd, orig_config, gres_name), total_cnt)

\* _build_gres_node_state with NO_VAL64 of this width
BuildConfState ==
    [_build_gres_node_state EXCEPT !.gres_cnt_config = CntRange - 2,
                                   !.gres_cnt_found = CntRange - 2]

\* the tokens of the declared strings: "gpu", "gpu:4", "gpu:2", "gpu:2K",
\* "gpu:t:2", "gpu:v:1", "gpu:t", "gpu:t:2(S:0)", "mps:4", and "gpu:3X",
\* whose suffix is no multiplier
TokenMenu ==
    {GpuName.s,
     GpuName.s \o <<58, 52>>,
     GpuName.s \o <<58, 50>>,
     GpuName.s \o <<58, 50, 75>>,
     GpuName.s \o <<58, 116, 58, 50>>,
     GpuName.s \o <<58, 118, 58, 49>>,
     GpuName.s \o <<58, 116>>,
     GpuName.s \o <<58, 116, 58, 50, 40, 83, 58, 48, 41>>,
     MpsName.s \o <<58, 52>>,
     GpuName.s \o <<58, 51, 88>>}

\* the strings of at most n tokens, "" included
RECURSIVE ConfStrings(_)
ConfStrings(n) ==
    IF n = 0 THEN {<<>>}
    ELSE ConfStrings(n - 1) \cup TokenMenu \cup
         {str \o <<44>> \o tok :
             str \in ConfStrings(n - 1) \ {<<>>}, tok \in TokenMenu}

DeclaredStrings == ConfStrings(MaxToks)

ConfFrame ==
    UNCHANGED <<gres_list, gres_conf_list, gres_context, node_gres, last, fit,
                lk, ser, reg, jv, ld, ini, tl, rv, sk, pk, wt, gm>>

\* _node_config_init(node_name, orig_config, context_ptr, gres_ptr) for the
\* kind of the record; before is the record as the call found it
node_config_init ==
    /\ cnf.parses < MaxParses
    /\ \E orig_config \in DeclaredStrings :
          \E r \in {NodeConfigInitOf(cnf.gd, orig_config, cnf.gres_name,
                                     cnf.total_cnt)} :
             cnf' = [pc |-> "done", gres_name |-> cnf.gres_name,
                     orig_config |-> orig_config, before |-> cnf.gd,
                     gd |-> r.gd, rc |-> r.rc, error |-> r.error,
                     total_cnt |-> r.total_cnt, parses |-> cnf.parses + 1]
    /\ ConfFrame

InitConf ==
    /\ gres_list = <<>>
    /\ gres_conf_list = <<>>
    /\ gres_context = [id \in Kinds |->
                          [has_file |-> FALSE, has_type |-> FALSE,
                           total_cnt |-> 0]]
    /\ node_gres = <<>>
    /\ last = [op |-> "none", rc |-> SLURM_SUCCESS, n |-> 0, prev |-> "none"]
    /\ fit = FitIdle
    /\ lk = LockIdle
    /\ ser = SerIdle
    /\ reg = RegIdle
    /\ jv = JvIdle
    /\ ld = LdIdle
    /\ ini = IniIdle
    /\ tl = TlIdle
    /\ rv = RvIdle
    /\ sk = SkIdle
    /\ pk = PkIdle
    /\ wt = WtIdle
    /\ gm = GmIdle
    /\ \E gres_name \in {GpuName.s, MpsName.s} :
          cnf = [pc |-> "new", gres_name |-> gres_name, orig_config |-> <<>>,
                 before |-> BuildConfState, gd |-> BuildConfState,
                 rc |-> SLURM_SUCCESS, error |-> FALSE, total_cnt |-> 0,
                 parses |-> 0]

NextConf == node_config_init

SpecConf == InitConf /\ [][NextConf]_vars

(***************************************************************************)
(* Claims about the declared string                                        *)
(***************************************************************************)
\* the tokens of the string that name the kind
KindTokens(orig_config, gres_name) ==
    SelectSeq(Strtok(orig_config, 44, 1, <<>>),
              LAMBDA tok : IsName(tok, gres_name)
                           \/ HasNameColon(tok, gres_name))

\* what the token is worth when it is the whole string: its count, and the
\* record with the types it names
Alone(tok, gres_name) ==
    OneToken([gd |-> BuildConfState, cnt |-> 0, error |-> FALSE,
              stop |-> FALSE], tok, gres_name)

RECURSIVE SumCounts(_, _, _)
SumCounts(toks, k, gres_name) ==
    IF k > Len(toks) THEN 0
    ELSE Cnt(Alone(toks[k], gres_name).cnt + SumCounts(toks, k + 1, gres_name))

TypeAvail(types, type_id) ==
    IF \E i \in 1 .. Len(types) : types[i].type_id = type_id
    THEN (CHOOSE rec \in {types[i] : i \in 1 .. Len(types)} :
             rec.type_id = type_id).cnt_avail
    ELSE 0

RECURSIVE SumTypes(_, _, _, _)
SumTypes(toks, k, gres_name, type_id) ==
    IF k > Len(toks) THEN 0
    ELSE Cnt(TypeAvail(Alone(toks[k], gres_name).gd.types, type_id)
             + SumTypes(toks, k + 1, gres_name, type_id))

\* the types the model's strings name: "t" and "v"
TypeIds == {gres_build_id(Str(<<116>>)), gres_build_id(Str(<<118>>))}

\* the record has the sum of the counts of toks, in all and for every type
CountsAreSums(gd, toks, gres_name) ==
    /\ gd.gres_cnt_config = SumCounts(toks, 1, gres_name)
    /\ \A type_id \in TypeIds :
          TypeAvail(gd.types, type_id) = SumTypes(toks, 1, gres_name, type_id)

WellFormed(toks, gres_name) ==
    \A k \in 1 .. Len(toks) : ~Alone(toks[k], gres_name).error

\* C26: the configured count of a kind is the sum of the counts of all the
\* tokens of the string that name the kind (1 for a token without a count,
\* the number times the multiplier of its suffix otherwise), and the count
\* of each type is the sum over the tokens that name the type.
C26_CountIsSum ==
    (/\ cnf.pc = "done"
     /\ WellFormed(KindTokens(cnf.orig_config, cnf.gres_name), cnf.gres_name))
    => CountsAreSums(cnf.gd, KindTokens(cnf.orig_config, cnf.gres_name),
                     cnf.gres_name)

\* the same for the strings, "" apart, in which the bare name of the kind,
\* if it is there, is the only token of the kind
C26_CountIsSumUnlessBare ==
    (/\ cnf.pc = "done"
     /\ cnf.orig_config # <<>>
     /\ WellFormed(KindTokens(cnf.orig_config, cnf.gres_name), cnf.gres_name)
     /\ \/ Len(KindTokens(cnf.orig_config, cnf.gres_name)) <= 1
        \/ \A k \in 1 .. Len(KindTokens(cnf.orig_config, cnf.gres_name)) :
              KindTokens(cnf.orig_config, cnf.gres_name)[k] # cnf.gres_name)
    => CountsAreSums(cnf.gd, KindTokens(cnf.orig_config, cnf.gres_name),
                     cnf.gres_name)

\* "gpu:t:2,gpu:v:1" gives 3 in all, 2 of type t and 1 of type v
C26_WitnessTyped ==
    /\ cnf.pc = "done"
    /\ cnf.orig_config = GpuName.s \o <<58, 116, 58, 50, 44>> \o GpuName.s
                         \o <<58, 118, 58, 49>>
    /\ cnf.gres_name = GpuName.s
    /\ cnf.gd.gres_cnt_config = 3
    /\ TypeAvail(cnf.gd.types, gres_build_id(Str(<<116>>))) = 2
    /\ TypeAvail(cnf.gd.types, gres_build_id(Str(<<118>>))) = 1

\* "gpu:2K" gives 2048
C26_WitnessSuffix ==
    /\ cnf.pc = "done"
    /\ cnf.orig_config = GpuName.s \o <<58, 50, 75>>
    /\ cnf.gres_name = GpuName.s
    /\ cnf.gd.gres_cnt_config = 2048
    /\ cnf.gd.types = <<>>

\* the string has a token of the kind whose count has no valid multiplier
Malformed ==
    /\ cnf.pc = "done"
    /\ ~WellFormed(KindTokens(cnf.orig_config, cnf.gres_name), cnf.gres_name)

\* C27: a string with a token whose count or suffix is malformed is
\* rejected: _node_config_init returns an error and the record keeps the
\* configured count it had.
C27_MalformedRejected ==
    Malformed =>
        /\ cnf.rc # SLURM_SUCCESS
        /\ cnf.gd.gres_cnt_config = cnf.before.gres_cnt_config

(***************************************************************************)
(* SpecLoad: gres_g_node_config_load on a slurmd.  gres_list is what       *)
(* gres_init_node_config made of the node's declared string, or NULL; the  *)
(* records of gres.conf are [plugin_id, type_name, count, file, has_type,  *)
(* count_only], file telling whether the record has a "File=".  The node   *)
(* has a positive cpu_cnt and no plugin library: _load_plugin fails, so no *)
(* kind has a node_config_load hook (line 2019).                           *)
(***************************************************************************)
KindText(plugin_id) ==
    CASE plugin_id = gpu_plugin_id -> GpuName.s
      [] plugin_id = mps_plugin_id -> MpsName.s
      [] OTHER -> NicName.s

\* gres_init_node_config(node_name, orig_config, &gres_list) on a NULL list
SlurmConfList(orig_config) ==
    [i \in 1 .. Len(GresContextOrder) |->
        [plugin_id |-> GresContextOrder[i],
         gres_data |-> NodeConfigInitOf(BuildConfState, orig_config,
                                        KindText(GresContextOrder[i]), 0).gd]]

RECURSIVE TypeSum(_, _)
TypeSum(types, i) ==
    IF i > Len(types) THEN 0
    ELSE Cnt(types[i].cnt_avail + TypeSum(types, i + 1))

\* _foreach_slurm_conf: fatal() when typed and untyped counts are mixed
MixedTypes(slurm_conf_list) ==
    \E i \in 1 .. Len(slurm_conf_list) :
        /\ Len(slurm_conf_list[i].gres_data.types) > 0
        /\ slurm_conf_list[i].gres_data.gres_cnt_config >
              TypeSum(slurm_conf_list[i].gres_data.types, 1)

\* _foreach_gres_conf: fatal() when the records of a kind disagree on
\* "File" or on "Type=", or when a kind has two records with neither
BadGresConf(conf_list) ==
    \E i, j \in 1 .. Len(conf_list) :
        /\ i < j
        /\ conf_list[i].plugin_id = conf_list[j].plugin_id
        /\ \/ conf_list[i].file # conf_list[j].file
           \/ conf_list[i].has_type # conf_list[j].has_type
           \/ ~conf_list[i].file /\ ~conf_list[i].has_type

\* _match_type: the index of the record it takes off gres_conf_list, 0 for
\* NULL
_match_type(conf_list, plugin_id, type_name) ==
    IF \E i \in 1 .. Len(conf_list) :
          /\ conf_list[i].plugin_id = plugin_id
          /\ type_name.null \/ conf_list[i].type_name = type_name
    THEN CHOOSE i \in 1 .. Len(conf_list) :
            /\ conf_list[i].plugin_id = plugin_id
            /\ type_name.null \/ conf_list[i].type_name = type_name
            /\ \A j \in 1 .. (i - 1) :
                  ~(/\ conf_list[j].plugin_id = plugin_id
                    /\ \/ type_name.null
                       \/ conf_list[j].type_name = type_name)
    ELSE 0

Without(list, i) == SubSeq(list, 1, i - 1) \o SubSeq(list, i + 1, Len(list))

\* the record _match_type returns: its type is removed when type_name is
\* NULL
Matched(rec, type_name) ==
    IF type_name.null THEN [rec EXCEPT !.type_name = NullStr] ELSE rec

\* 1637-1650: a record for what gres.conf does not account for
Leftover(plugin_id, type_name, count) ==
    [plugin_id |-> plugin_id, type_name |-> type_name, count |-> count,
     file |-> FALSE, has_type |-> ~type_name.null, count_only |-> TRUE]

\* _add_gres_config_empty
EmptyConf(plugin_id) ==
    [plugin_id |-> plugin_id, type_name |-> NullStr, count |-> 0,
     file |-> FALSE, has_type |-> FALSE, count_only |-> FALSE]

\* _merge_gres2: ms is [conf, new], the gres.conf list and new_list
RECURSIVE _merge_gres2(_, _, _, _)
MergeMatch(ms, count, type_name, plugin_id, m) ==
    IF m = 0
    THEN [ms EXCEPT !.new = Append(@, Leftover(plugin_id, type_name, count))]
    ELSE IF ms.conf[m].count > count
    THEN [conf |-> Without(ms.conf, m),
          new |-> Append(ms.new, [Matched(ms.conf[m], type_name) EXCEPT
                                     !.count = count])]
    ELSE _merge_gres2([conf |-> Without(ms.conf, m),
                       new |-> Append(ms.new,
                                      Matched(ms.conf[m], type_name))],
                      count - ms.conf[m].count, type_name, plugin_id)

_merge_gres2(ms, count, type_name, plugin_id) ==
    IF count = 0 THEN ms
    ELSE MergeMatch(ms, count, type_name, plugin_id,
                    _match_type(ms.conf, plugin_id, type_name))

RECURSIVE MergeTypes(_, _, _, _)
MergeTypes(ms, types, i, plugin_id) ==
    IF i > Len(types) THEN ms
    ELSE MergeTypes(_merge_gres2(ms, types[i].cnt_avail,
                                 Str(types[i].type_name), plugin_id),
                    types, i + 1, plugin_id)

\* _merge_gres
_merge_gres(ms, rec) ==
    IF Len(rec.gres_data.types) = 0
    THEN _merge_gres2(ms, rec.gres_data.gres_cnt_config, NullStr,
                      rec.plugin_id)
    ELSE MergeTypes(ms, rec.gres_data.types, 1, rec.plugin_id)

\* 1711-1719: the records of slurm_conf_list of the kind
RECURSIVE MergeKind(_, _, _, _)
MergeKind(ms, slurm_conf_list, k, plugin_id) ==
    IF k > Len(slurm_conf_list) THEN ms
    ELSE IF slurm_conf_list[k].plugin_id # plugin_id
    THEN MergeKind(ms, slurm_conf_list, k + 1, plugin_id)
    ELSE MergeKind(_merge_gres(ms, slurm_conf_list[k]), slurm_conf_list,
                   k + 1, plugin_id)

\* 1706-1728 for one kind: slurm_conf is [null, list]
MergeContext(ms, slurm_conf, plugin_id) ==
    IF /\ ~slurm_conf.null
       /\ \E k \in 1 .. Len(slurm_conf.list) :
             slurm_conf.list[k].plugin_id = plugin_id
    THEN MergeKind(ms, slurm_conf.list, 1, plugin_id)
    ELSE [ms EXCEPT !.new = Append(@, EmptyConf(plugin_id))]

RECURSIVE MergeContexts(_, _, _)
MergeContexts(ms, slurm_conf, i) ==
    IF i > Len(GresContextOrder) THEN ms
    ELSE MergeContexts(MergeContext(ms, slurm_conf, GresContextOrder[i]),
                       slurm_conf, i + 1)

\* _merge_config: the new gres_conf_list
_merge_config(conf_list, slurm_conf) ==
    MergeContexts([conf |-> conf_list, new |-> <<>>], slurm_conf, 1).new

\* 2031: list_delete_all(gres_conf_list, _find_fileless_gres, &gpu_plugin_id)
_find_fileless_gres(rec, plugin_id) == rec.plugin_id = plugin_id /\ ~rec.file

DeleteFileless(conf_list) ==
    SelectSeq(conf_list,
              LAMBDA rec : ~_find_fileless_gres(rec, gpu_plugin_id))

\* 2007-2041: [pc, gres_conf_list]
NodeConfigLoad(conf_list, slurm_conf) ==
    IF \/ ~slurm_conf.null /\ MixedTypes(slurm_conf.list)
       \/ BadGresConf(conf_list)
    THEN [pc |-> "exited", gres_conf_list |-> conf_list]
    ELSE [pc |-> "loaded",
          gres_conf_list |->
              DeleteFileless(_merge_config(conf_list, slurm_conf))]

\* the records of a gres.conf
FileConf(plugin_id, type_name, count, file) ==
    [plugin_id |-> plugin_id, type_name |-> type_name, count |-> count,
     file |-> file, has_type |-> ~type_name.null, count_only |-> FALSE]

GresConfMenu ==
    {<<>>,
     <<FileConf(gpu_plugin_id, NullStr, 1, TRUE)>>,
     <<FileConf(gpu_plugin_id, NullStr, 1, TRUE),
       FileConf(gpu_plugin_id, NullStr, 1, TRUE)>>,
     <<FileConf(gpu_plugin_id, NullStr, 4, TRUE)>>,
     <<FileConf(gpu_plugin_id, NullStr, 2, FALSE)>>,
     <<FileConf(gpu_plugin_id, TypeT, 2, TRUE)>>,
     <<FileConf(gpu_plugin_id, NullStr, 2, TRUE),
       FileConf(mps_plugin_id, NullStr, 4, TRUE)>>,
     <<FileConf(nic_plugin_id, NullStr, 1, FALSE)>>,
     <<FileConf(gpu_plugin_id, NullStr, 1, TRUE),
       FileConf(gpu_plugin_id, NullStr, 1, FALSE)>>}

LoadFrame ==
    UNCHANGED <<gres_list, gres_conf_list, gres_context, node_gres, last, fit,
                lk, ser, reg, jv, cnf, ini, tl, rv, sk, pk, wt, gm>>

\* gres_g_node_config_load(cpu_cnt, node_name, gres_list, ...)
gres_g_node_config_load ==
    /\ ld.pc = "new"
    /\ \E r \in {NodeConfigLoad(ld.gres_conf, ld.slurm_conf)} :
          ld' = [ld EXCEPT !.pc = r.pc, !.gres_conf_list = r.gres_conf_list]
    /\ LoadFrame

InitLoad ==
    /\ gres_list = <<>>
    /\ gres_conf_list = <<>>
    /\ gres_context = [id \in Kinds |->
                          [has_file |-> FALSE, has_type |-> FALSE,
                           total_cnt |-> 0]]
    /\ node_gres = <<>>
    /\ last = [op |-> "none", rc |-> SLURM_SUCCESS, n |-> 0, prev |-> "none"]
    /\ fit = FitIdle
    /\ lk = LockIdle
    /\ ser = SerIdle
    /\ reg = RegIdle
    /\ jv = JvIdle
    /\ cnf = CnfIdle
    /\ ini = IniIdle
    /\ tl = TlIdle
    /\ rv = RvIdle
    /\ sk = SkIdle
    /\ pk = PkIdle
    /\ wt = WtIdle
    /\ gm = GmIdle
    /\ \E orig_config \in DeclaredStrings, given \in BOOLEAN,
          gres_conf \in GresConfMenu :
          ld = [pc |-> "new", orig_config |-> orig_config,
                slurm_conf |-> [null |-> ~given,
                                list |-> IF given
                                         THEN SlurmConfList(orig_config)
                                         ELSE <<>>],
                gres_conf |-> gres_conf, gres_conf_list |-> <<>>]

NextLoad == gres_g_node_config_load

SpecLoad == InitLoad /\ [][NextLoad]_vars

(***************************************************************************)
(* Claims about the merged list                                            *)
(***************************************************************************)
HasConf(list, plugin_id) ==
    \E i \in 1 .. Len(list) : list[i].plugin_id = plugin_id

\* C28: after gres_g_node_config_load, gres_conf_list has a record of every
\* kind of gres_context[]; a kind of which the node has nothing has a
\* record with count 0.
C28_EveryKindPresent ==
    ld.pc = "loaded" =>
        \A plugin_id \in Kinds : HasConf(ld.gres_conf_list, plugin_id)

\* the same for the kinds other than gres/gpu when gres_list is NULL
C28_PresentWithoutSlurmConf ==
    (ld.pc = "loaded" /\ ld.slurm_conf.null) =>
        \A plugin_id \in Kinds \ {gpu_plugin_id} :
            \E i \in 1 .. Len(ld.gres_conf_list) :
                ld.gres_conf_list[i] = EmptyConf(plugin_id)

(***************************************************************************)
(* gres_init called by several threads.  ini.reg is the registry, owner    *)
(* the holder of gres_context_lock (0 when free), th[t] the position of    *)
(* thread t inside gres_init and the calls it has made, builds the number  *)
(* of times lines 486-487 were passed.                                     *)
(***************************************************************************)
MaxInitCalls == 2       \* calls of gres_init by one thread

\* a mutation of AlreadyBuilt: the test of line 483 never succeeds
NeverBuilt(r) == FALSE

\* line 483: the registry was built (or is being built) already
AlreadyBuilt(r) == r.gres_context_cnt >= 0

\* line 478, read without gres_context_lock
InitDone(r) == r.init_run /\ r.gres_context_cnt >= 0

\* lines 542-560 for the records the loop of 522-539 made
ContextAdded(r, st, context) ==
    IF DuplicateId(context)
    THEN [r EXCEPT !.exited = TRUE, !.have_gpu = st.have_gpu,
                   !.have_mps = st.have_mps]
    ELSE [r EXCEPT !.gres_context = context,
                   !.gres_context_cnt = Len(context),
                   !.have_gpu = st.have_gpu, !.have_mps = st.have_mps]

\* lines 491-539 for the names as lines 495-519 sorted them
ContextSorted(r, st) ==
    IF st.fatal THEN [r EXCEPT !.exited = TRUE, !.have_gpu = st.have_gpu,
                               !.have_mps = st.have_mps]
    ELSE ContextAdded(r, st, AddLoop(<<>>, st.sorted, 1))

\* lines 488-560
ContextBuilt(r) ==
    IF r.gres_plugins = <<>> THEN r
    ELSE ContextSorted(r, SortNames(r.gres_plugins))

InitFrame ==
    UNCHANGED <<gres_list, gres_conf_list, gres_context, node_gres, last, fit,
                lk, ser, reg, jv, cnf, ld, tl, rv, sk, pk, wt, gm>>

At(t, pc) == ~ini.reg.exited /\ ini.th[t].pc = pc

\* thread t calls gres_init
InitCall(t) ==
    /\ At(t, "idle")
    /\ ini.th[t].calls < MaxInitCalls
    /\ ini' = [ini EXCEPT !.th[t].pc = "478", !.th[t].calls = @ + 1]
    /\ InitFrame

\* lines 478-479.  The read is not ordered with the writes another thread
\* makes under the lock: it yields the variables as they are or as they
\* were before those writes, when init_run was false.
InitCheck(t) ==
    /\ At(t, "478")
    /\ \E seen \in {InitDone(ini.reg), FALSE} :
          ini' = [ini EXCEPT !.th[t].pc = IF seen THEN "idle" ELSE "481"]
    /\ InitFrame

\* line 481
InitTakeLock(t) ==
    /\ At(t, "481")
    /\ ini.owner = 0
    /\ ini' = [ini EXCEPT !.owner = t, !.th[t].pc = "483"]
    /\ InitFrame

\* lines 483-487
InitTest(t) ==
    /\ At(t, "483")
    /\ ini' = IF AlreadyBuilt(ini.reg)
              THEN [ini EXCEPT !.th[t].pc = "fini"]
              ELSE [ini EXCEPT !.th[t].pc = "488",
                               !.reg.gres_context_cnt = 0,
                               !.builds = @ + 1]
    /\ InitFrame

\* lines 488-560
InitContext(t) ==
    /\ At(t, "488")
    /\ ini' = [ini EXCEPT !.th[t].pc = "fini", !.reg = ContextBuilt(@)]
    /\ InitFrame

\* lines 562-575
InitFinish(t) ==
    /\ At(t, "fini")
    /\ ini' = [ini EXCEPT !.th[t].pc = "576", !.reg = InitFini(@)]
    /\ InitFrame

\* lines 576-578
InitUnlock(t) ==
    /\ At(t, "576")
    /\ ini' = [ini EXCEPT !.th[t].pc = "idle", !.owner = 0]
    /\ InitFrame

InitRace ==
    /\ gres_list = <<>>
    /\ gres_conf_list = <<>>
    /\ gres_context = [id \in Kinds |->
                          [has_file |-> FALSE, has_type |-> FALSE,
                           total_cnt |-> 0]]
    /\ node_gres = <<>>
    /\ last = [op |-> "none", rc |-> SLURM_SUCCESS, n |-> 0, prev |-> "none"]
    /\ fit = FitIdle
    /\ lk = LockIdle
    /\ ser = SerIdle
    /\ reg = RegIdle
    /\ jv = JvIdle
    /\ cnf = CnfIdle
    /\ ld = LdIdle
    /\ tl = TlIdle
    /\ rv = RvIdle
    /\ sk = SkIdle
    /\ pk = PkIdle
    /\ wt = WtIdle
    /\ gm = GmIdle
    /\ \E gres_plugins \in NameLists(MaxNames), cons_tres \in BOOLEAN :
          ini = [reg |-> [gres_plugins |-> gres_plugins,
                          cons_tres |-> cons_tres, init_run |-> FALSE,
                          gres_context_cnt |-> 0 - 1, gres_context |-> <<>>,
                          have_gpu |-> FALSE, have_mps |-> FALSE,
                          exited |-> FALSE],
                 owner |-> 0, builds |-> 0,
                 th |-> [t \in Threads |-> [pc |-> "idle", calls |-> 0]]]

NextRace ==
    \E t \in Threads :
        \/ InitCall(t)
        \/ InitCheck(t)
        \/ InitTakeLock(t)
        \/ InitTest(t)
        \/ InitContext(t)
        \/ InitFinish(t)
        \/ InitUnlock(t)

SpecRace == InitRace /\ [][NextRace]_vars

\* gres_init has succeeded: init_run is set and the process runs
InitSucceeded == ini.reg.init_run /\ ~ini.reg.exited

\* the kinds, their ids and order, and their count
Registry(r) == <<r.gres_context, r.gres_context_cnt>>

\* C31: once gres_init has succeeded, no step of any later call, of the same
\* thread or of a thread running beside it, changes the registry's kinds,
\* ids, order or count, and whatever the interleaving the registry is built
\* at most once.
C31_InitOnce ==
    [][/\ ini'.builds <= 1
       /\ InitSucceeded =>
             /\ Registry(ini'.reg) = Registry(ini.reg)
             /\ ini'.reg.init_run
             /\ ~ini'.reg.exited]_vars

\* gres_init has succeeded with two kinds, and a thread that found init_run
\* unset at line 478 went through the lock to fini without building
C31_Witness ==
    /\ InitSucceeded
    /\ ini.builds = 1
    /\ ini.reg.gres_context_cnt = 2
    /\ \E t \in Threads : ini.th[t].pc = "fini" /\ ini.th[t].calls = 2

(***************************************************************************)
(* The kinds' total_cnt over several nodes.  tl.list[n] is the gres_list  *)
(* of node n, tl.ctx the kinds' contexts, tl.inits[n] the calls of       *)
(* gres_init_node_config for node n, tl.restored[n] whether the node's    *)
(* list came from gres_node_state_unpack, tl.ops the calls made.          *)
(***************************************************************************)
NumNodes == 2           \* nodes of the cluster
MaxTotalOps == 3        \* calls of SpecTotal

Nodes == 1 .. NumNodes

TotalFrame ==
    UNCHANGED <<gres_list, gres_conf_list, gres_context, node_gres, last, fit,
                lk, ser, reg, jv, cnf, ld, ini, rv, sk, pk, wt, gm>>

\* gres_init_node_config(node n, orig_config, &gres_list)
TotalInit(n) ==
    /\ tl.ops < MaxTotalOps
    /\ \E orig_config \in ConfigMenu :
          \E r \in {InitLoop(tl.list[n], tl.ctx, orig_config, 1)} :
              tl' = [tl EXCEPT !.list[n] = r.list, !.ctx = r.ctx,
                                 !.inits[n] = @ + 1, !.ops = @ + 1]
    /\ TotalFrame

\* gres_node_reconfig(node n, new_gres, ..., &gres_list, ...)
TotalReconfig(n) ==
    /\ tl.ops < MaxTotalOps
    /\ \E new_gres \in ConfigMenu :
          \E r \in {NodeReconfig(tl.list[n], tl.ctx, new_gres)} :
              tl' = [tl EXCEPT !.list[n] = r.list, !.ctx = r.ctx,
                                 !.ops = @ + 1]
    /\ TotalFrame

\* gres_node_state_unpack(&gres_list, buffer, node n, ...) at the restart of
\* the controller: the saved record of gres/gpu, gres_cnt_avail units
TotalRestore(n) ==
    /\ tl.ops < MaxTotalOps
    /\ tl.list[n] = <<>>
    /\ \E gres_cnt_avail \in 0 .. MaxCount :
          tl' = [tl EXCEPT
                     !.list[n] = <<NodeUnpacked(gpu_plugin_id,
                                                gres_cnt_avail, 0)>>,
                     !.restored[n] = TRUE, !.ops = @ + 1]
    /\ TotalFrame

InitTotal ==
    /\ gres_list = <<>>
    /\ gres_conf_list = <<>>
    /\ gres_context = [id \in Kinds |->
                          [has_file |-> FALSE, has_type |-> FALSE,
                           total_cnt |-> 0]]
    /\ node_gres = <<>>
    /\ last = [op |-> "none", rc |-> SLURM_SUCCESS, n |-> 0, prev |-> "none"]
    /\ fit = FitIdle
    /\ lk = LockIdle
    /\ ser = SerIdle
    /\ reg = RegIdle
    /\ jv = JvIdle
    /\ cnf = CnfIdle
    /\ ld = LdIdle
    /\ ini = IniIdle
    /\ rv = RvIdle
    /\ sk = SkIdle
    /\ pk = PkIdle
    /\ wt = WtIdle
    /\ gm = GmIdle
    /\ \E has_file \in BOOLEAN :
          tl = [list |-> [n \in Nodes |-> <<>>],
                 ctx |-> [id \in Kinds |->
                             [has_file |-> has_file /\ id = gpu_plugin_id,
                              has_type |-> FALSE, total_cnt |-> 0]],
                 inits |-> [n \in Nodes |-> 0],
                 restored |-> [n \in Nodes |-> FALSE],
                 ops |-> 0]

NextTotal ==
    \E n \in Nodes :
        \/ TotalInit(n)
        \/ TotalReconfig(n)
        \/ TotalRestore(n)

SpecTotal == InitTotal /\ [][NextTotal]_vars

\* the configured count of a kind on a node: none when the node has no
\* record of the kind or the count is still unknown
ConfiguredCnt(list, id) ==
    IF FindId(list, id) = 0 THEN 0
    ELSE IF GresData(list, id).gres_cnt_config = NO_VAL64 THEN 0
    ELSE GresData(list, id).gres_cnt_config

RECURSIVE SumConfigured(_, _)
SumConfigured(id, n) ==
    IF n = 0 THEN 0
    ELSE U64(SumConfigured(id, n - 1) + ConfiguredCnt(tl.list[n], id))

\* C38: after any gres_init_node_config and gres_node_reconfig calls over
\* the nodes, the total_cnt of every kind is the sum over the nodes of the
\* kind's configured count.
C38_TotalIsSum ==
    \A id \in Kinds : tl.ctx[id].total_cnt = SumConfigured(id, NumNodes)

\* the same while every node was initialised at most once and no node's
\* list was restored: the part of the statement the code keeps
C38_TotalIsSumOfFirstInits ==
    (\A n \in Nodes : tl.inits[n] <= 1 /\ ~tl.restored[n]) =>
        \A id \in Kinds : tl.ctx[id].total_cnt = SumConfigured(id, NumNodes)

(***************************************************************************)
(* Claims about gres_step_test (SpecFit).                                  *)
(***************************************************************************)
StepTested == fit.pc = "done" /\ fit.op = "step_test"

\* the key gres_step_test searches the job's records with (9345-9354)
StepKey(rec) ==
    [plugin_id |-> rec.plugin_id, type_id |-> rec.gres_data.type_id,
     node_offset |-> fit.in.node_offset]

\* what the step asks for on one node
StepRequired(step) ==
    Max(Max(step.gres_per_node, step.gres_per_socket), step.gres_per_task)

\* what a record of the job was granted on the node, and what the job's
\* steps have consumed of it there
GrantOf(x) ==
    IF ~gres_id_shared(x.plugin_id) /\ ~x.gres_data.gres_bit_alloc.null
    THEN bit_set_count(x.gres_data.gres_bit_alloc)
    ELSE IF x.gres_data.has_cnt_node_alloc
    THEN x.gres_data.gres_cnt_node_alloc ELSE 0
ConsumedOf(x) ==
    IF ~gres_id_shared(x.plugin_id) /\ ~x.gres_data.gres_bit_alloc.null
    THEN bit_set_count(x.gres_data.gres_bit_step_alloc)
    ELSE IF x.gres_data.has_cnt_step_alloc
    THEN x.gres_data.gres_cnt_step_alloc ELSE 0

RECURSIVE StepLeft(_, _, _)
StepLeft(job_list, k, key) ==
    IF k > Len(job_list) THEN 0
    ELSE StepLeft(job_list, k + 1, key) +
         (IF gres_find_job_by_key(job_list[k], key)
          THEN GrantOf(job_list[k]) - ConsumedOf(job_list[k]) ELSE 0)

StepWithinGrant ==
    \A k \in 1 .. Len(fit.in.step_list) :
        StepRequired(fit.in.step_list[k].gres_data) <=
            StepLeft(fit.in.job_list, 1, StepKey(fit.in.step_list[k]))

\* C32: gres_step_test reports that the step fits on the node (a core count
\* other than 0) only if, for every kind the step asks for, what it needs
\* on the node is at most what the job was granted there less what the
\* job's steps have consumed there.
C32_StepWithinGrant == StepTested /\ fit.ret # 0 => StepWithinGrant

\* C32 as the code keeps it: the same for a call that does not ignore the
\* steps' allocations (ignore_alloc false) on a job whose records hold the
\* count arrays or bitmaps of the node.
StepCountsKnown ==
    \A k \in 1 .. Len(fit.in.job_list) :
        LET x == fit.in.job_list[k]
        IN \/ ~gres_id_shared(x.plugin_id) /\ ~x.gres_data.gres_bit_alloc.null
           \/ x.gres_data.has_cnt_node_alloc /\ x.gres_data.has_cnt_step_alloc
C32_StepWithinGrantCounted ==
    StepTested /\ fit.ret # 0 /\ ~fit.in.ignore_alloc /\ StepCountsKnown =>
        StepWithinGrant

\* the job holds two units of gres/gpu on the node, one of them consumed by
\* a step, and a step asking for the one that is left is found to fit
C32_Witness ==
    /\ StepTested /\ fit.ret # 0 /\ ~fit.in.ignore_alloc /\ StepCountsKnown
    /\ Len(fit.in.job_list) = 1
    /\ GrantOf(fit.in.job_list[1]) = 2
    /\ ConsumedOf(fit.in.job_list[1]) = 1
    /\ Len(fit.in.step_list) = 1
    /\ StepRequired(fit.in.step_list[1].gres_data) = 1

\* the running total of a step record: gross_gres for a call that ignores
\* the steps' allocations, total_gres otherwise
RunningTotal(step) ==
    IF fit.in.ignore_alloc THEN step.gross_gres ELSE step.total_gres

\* what gres_step_test finds available for the step's first record
FirstAvailable ==
    StepGetGresCntLoop(fit.in.job_list, 1, StepKey(fit.in.step_list[1]),
                       fit.in.ignore_alloc, INFINITE64)

\* gres_step_test was called with first_step_node set and the job has a
\* record for the step's first record
FirstNodeTested ==
    /\ StepTested /\ fit.in.first_step_node
    /\ FirstAvailable # INFINITE64

\* C39: after a gres_step_test with first_step_node set, the running total
\* of the step's record holds nothing of an earlier pass: it is what this
\* pass added, the quantity available on the node or nothing, also when
\* nothing is available there.
C39_TotalDiscarded ==
    FirstNodeTested =>
        RunningTotal(fit.out.step_list[1].gres_data) \in
            {0, IF FirstAvailable = NO_VAL64 THEN 0 ELSE FirstAvailable}

\* the same when something is available on the node: the part of the
\* statement the code keeps
C39_TotalDiscardedUnlessNone ==
    FirstNodeTested /\ FirstAvailable # 0 =>
        RunningTotal(fit.out.step_list[1].gres_data) \in
            {0, IF FirstAvailable = NO_VAL64 THEN 0 ELSE FirstAvailable}

(***************************************************************************)
(* gres_job_revalidate2.  A job record is [plugin_id, gres_data] with      *)
(* gres_data [node_cnt, gres_bit_alloc], gres_bit_alloc NullArray or one   *)
(* bitmap (or NullBitmap) for each of the job's node_cnt nodes; the node   *)
(* table has for each node its list of [plugin_id, gres_cnt_config].       *)
(* `int' is scaled down with the word: IntRange values, half of them       *)
(* negative.                                                               *)
(***************************************************************************)
TableSize == 2          \* nodes of node_record_table_ptr
MaxWidth == 2           \* largest gres_bit_alloc of a job

IntRange == U64Range \div 2

\* (int) x for a uint64_t x
ToInt(x) ==
    IF x % IntRange >= IntRange \div 2 THEN (x % IntRange) - IntRange
    ELSE x % IntRange

\* _job_has_gres_bits
_job_has_gres_bits(job_gres_list) ==
    \E k \in 1 .. Len(job_gres_list) :
        \E i \in 1 .. job_gres_list[k].gres_data.node_cnt :
            /\ ~job_gres_list[k].gres_data.gres_bit_alloc.null
            /\ ~job_gres_list[k].gres_data.gres_bit_alloc.v[i].null

\* _get_node_gres_cnt: "for gres/mps return count of gres/gpu"
_get_node_gres_cnt(node_gres_list, plugin_id) ==
    IF FindId(node_gres_list,
              IF plugin_id = mps_plugin_id THEN gpu_plugin_id
              ELSE plugin_id) = 0
    THEN 0
    ELSE ToInt(node_gres_list[FindId(node_gres_list,
                                     IF plugin_id = mps_plugin_id
                                     THEN gpu_plugin_id ELSE plugin_id)]
                   .gres_cnt_config)

\* _validate_node_gres_cnt from the k-th record of the job on; node_inx
\* counts from 0
RECURSIVE _validate_node_gres_cnt(_, _, _, _)
_validate_node_gres_cnt(job_gres_list, k, node_inx, node_gres_list) ==
    IF k > Len(job_gres_list) THEN TRUE
    ELSE IF \/ job_gres_list[k].gres_data.gres_bit_alloc.null
            \/ node_inx >= job_gres_list[k].gres_data.node_cnt
    THEN _validate_node_gres_cnt(job_gres_list, k + 1, node_inx,
                                 node_gres_list)
    ELSE IF job_gres_list[k].gres_data.gres_bit_alloc.v[node_inx + 1].null
    THEN _validate_node_gres_cnt(job_gres_list, k + 1, node_inx,
                                 node_gres_list)
    ELSE IF bit_size(job_gres_list[k].gres_data.gres_bit_alloc
                         .v[node_inx + 1]) #
            _get_node_gres_cnt(node_gres_list, job_gres_list[k].plugin_id)
    THEN FALSE
    ELSE _validate_node_gres_cnt(job_gres_list, k + 1, node_inx,
                                 node_gres_list)

\* the loop of 5595-5606 from node i on, node_inx the index of the last
\* node of the job seen
RECURSIVE RevalidateLoop(_, _, _, _, _)
RevalidateLoop(job_gres_list, node_bitmap, table, i, node_inx) ==
    IF i >= bit_size(node_bitmap) THEN SLURM_SUCCESS
    ELSE IF ~bit_test(node_bitmap, i)
    THEN RevalidateLoop(job_gres_list, node_bitmap, table, i + 1, node_inx)
    ELSE IF ~_validate_node_gres_cnt(job_gres_list, 1, node_inx + 1,
                                     table[i + 1])
    THEN ESLURM_INVALID_GRES
    ELSE RevalidateLoop(job_gres_list, node_bitmap, table, i + 1,
                        node_inx + 1)

\* gres_job_revalidate2(job_id, job_gres_list, node_bitmap)
JobRevalidate2(job_gres_list, node_bitmap, table) ==
    IF node_bitmap.null \/ ~_job_has_gres_bits(job_gres_list)
    THEN SLURM_SUCCESS
    ELSE RevalidateLoop(job_gres_list, node_bitmap, table, 0, 0 - 1)

\* the inputs: the records of a node, a job's records, the job's nodes
NodeCntMenu == {0, 1, MaxWidth, NO_VAL64, IntRange + MaxWidth}
NodeRecMenu ==
    {<<>>} \cup
    {<<[plugin_id |-> gpu_plugin_id, gres_cnt_config |-> c]>> :
        c \in NodeCntMenu} \cup
    {<<[plugin_id |-> gpu_plugin_id, gres_cnt_config |-> c],
       [plugin_id |-> mps_plugin_id, gres_cnt_config |-> 2 * MaxWidth]>> :
        c \in 1 .. MaxWidth}

WidthMenu == {NullBitmap} \cup {bit_alloc(w) : w \in 1 .. MaxWidth}
BitAllocMenu(node_cnt) ==
    {NullArray} \cup
    {[null |-> FALSE, v |-> v] : v \in [1 .. node_cnt -> WidthMenu]}

RevalJobMenu ==
    {<<[plugin_id |-> id,
        gres_data |-> [node_cnt |-> n, gres_bit_alloc |-> b]]>> :
        id \in {gpu_plugin_id, mps_plugin_id}, n \in {1}, b \in BitAllocMenu(1)}
    \cup
    {<<[plugin_id |-> id,
        gres_data |-> [node_cnt |-> n, gres_bit_alloc |-> b]]>> :
        id \in {gpu_plugin_id, mps_plugin_id}, n \in {TableSize},
        b \in BitAllocMenu(TableSize)}

NodeBitmapMenu ==
    {NullBitmap} \cup
    {[null |-> FALSE, size |-> TableSize, bits |-> b] :
        b \in SUBSET (0 .. (TableSize - 1))}

RevalFrame ==
    UNCHANGED <<gres_list, gres_conf_list, gres_context, node_gres, last, fit,
                lk, ser, reg, jv, cnf, ld, ini, tl, sk, pk, wt, gm>>

gres_job_revalidate2 ==
    /\ rv.pc = "new"
    /\ rv' = [rv EXCEPT !.pc = "done",
                        !.rc = JobRevalidate2(rv.job_gres_list,
                                              rv.node_bitmap, rv.table)]
    /\ RevalFrame

InitReval ==
    /\ gres_list = <<>>
    /\ gres_conf_list = <<>>
    /\ gres_context = [id \in Kinds |->
                          [has_file |-> FALSE, has_type |-> FALSE,
                           total_cnt |-> 0]]
    /\ node_gres = <<>>
    /\ last = [op |-> "none", rc |-> SLURM_SUCCESS, n |-> 0, prev |-> "none"]
    /\ fit = FitIdle
    /\ lk = LockIdle
    /\ ser = SerIdle
    /\ reg = RegIdle
    /\ jv = JvIdle
    /\ cnf = CnfIdle
    /\ ld = LdIdle
    /\ ini = IniIdle
    /\ tl = TlIdle
    /\ sk = SkIdle
    /\ pk = PkIdle
    /\ wt = WtIdle
    /\ gm = GmIdle
    /\ \E job_gres_list \in RevalJobMenu, node_bitmap \in NodeBitmapMenu,
          table \in [1 .. TableSize -> NodeRecMenu] :
          rv = [pc |-> "new", job_gres_list |-> job_gres_list,
                node_bitmap |-> node_bitmap, table |-> table,
                rc |-> SLURM_SUCCESS]

NextReval == gres_job_revalidate2

SpecReval == InitReval /\ [][NextReval]_vars

\* the configured count of the device units of a kind on a node: those of
\* gres/gpu for gres/mps, whose bitmap has a bit for each gres/gpu; none when
\* the node has no record, NO_VAL64 when the count is not known
DeviceUnits(node_gres_list, plugin_id) ==
    IF FindId(node_gres_list,
              IF plugin_id = mps_plugin_id THEN gpu_plugin_id
              ELSE plugin_id) = 0
    THEN 0
    ELSE node_gres_list[FindId(node_gres_list,
                               IF plugin_id = mps_plugin_id
                               THEN gpu_plugin_id ELSE plugin_id)]
             .gres_cnt_config

\* the index in the job's arrays of node i of the table, from 0
NodeInx(i) == Cardinality({j \in rv.node_bitmap.bits : j < i})

\* the job holds on node i of the table a bitmap whose width is not the
\* node's configured count of device units
WidthDiffers(k, i) ==
    /\ i \in rv.node_bitmap.bits
    /\ ~rv.job_gres_list[k].gres_data.gres_bit_alloc.null
    /\ NodeInx(i) < rv.job_gres_list[k].gres_data.node_cnt
    /\ ~rv.job_gres_list[k].gres_data.gres_bit_alloc.v[NodeInx(i) + 1].null
    /\ bit_size(rv.job_gres_list[k].gres_data.gres_bit_alloc
                    .v[NodeInx(i) + 1]) #
       DeviceUnits(rv.table[i + 1], rv.job_gres_list[k].plugin_id)

AnyWidthDiffers ==
    /\ ~rv.node_bitmap.null
    /\ \E k \in 1 .. Len(rv.job_gres_list), i \in 0 .. (TableSize - 1) :
          WidthDiffers(k, i)

\* C33: gres_job_revalidate2 returns ESLURM_INVALID_GRES when on some node
\* of the job a bitmap the job holds has a width other than the node's
\* configured count of device units, and SLURM_SUCCESS only when every such
\* width is that count.
C33_MismatchRejected ==
    rv.pc = "done" =>
        /\ AnyWidthDiffers => rv.rc = ESLURM_INVALID_GRES
        /\ rv.rc = SLURM_SUCCESS => ~AnyWidthDiffers

\* the same for nodes whose configured count is one an int can hold: the
\* part of the statement the code keeps
CountsFitInt ==
    \A i \in 1 .. TableSize : \A k \in 1 .. Len(rv.table[i]) :
        \/ rv.table[i][k].gres_cnt_config < IntRange \div 2
        \/ rv.table[i][k].gres_cnt_config = NO_VAL64
C33_MismatchRejectedInInt ==
    rv.pc = "done" /\ CountsFitInt =>
        (AnyWidthDiffers <=> rv.rc = ESLURM_INVALID_GRES)

(***************************************************************************)
(* The per-socket breakdown on a node with topology:                       *)
(* _build_sock_gres_by_topo as gres_job_test2 calls it, with the node      *)
(* record of the alternate kind of the gpu/mps pair.  Socket s of the      *)
(* source is element s + 1 of cnt_by_sock and bits_by_sock.                *)
(***************************************************************************)
SockCnt == 2            \* sockets of the node
CoresPerSock == 2       \* cores of each socket
NumGpus == 2            \* device files of gres/gpu on the node
MpsPerGpu == 2          \* gres/mps units of one device

bit_nclear(b, lo, hi) == [b EXCEPT !.bits = @ \ (lo .. hi)]

SockCores(s, cores_per_sock) ==
    (s * cores_per_sock) .. (s * cores_per_sock + cores_per_sock - 1)

\* lines 6959-6978: what entry e has left, 0 when the entry is passed over
EntryAvail(job, node, use_total_gres, use_busy_dev, e) ==
    IF \/ job.type_id # 0 /\ job.type_id # e.type_id
       \/ use_busy_dev /\ e.cnt_alloc = 0
       \/ ~use_total_gres /\ ~node.no_consume /\ e.cnt_alloc >= e.cnt_avail
    THEN 0
    ELSE IF ~use_total_gres /\ ~node.no_consume
         THEN e.cnt_avail - e.cnt_alloc
         ELSE e.cnt_avail

\* the same entry when nothing is filtered
AltIgnored(avail_gres, e, alt_plugin_id, alt) == avail_gres

\* lines 6984-6995; alt is <<>> for a NULL alt_node_gres_ptr
AltFilter(avail_gres, e, alt_plugin_id, alt) ==
    IF \/ Len(alt) = 0
       \/ alt[1].gres_bit_alloc.null
       \/ e.gres_bitmap.null
       \/ bit_overlap(e.gres_bitmap, alt[1].gres_bit_alloc) = 0
    THEN avail_gres
    ELSE IF alt_plugin_id = gpu_plugin_id THEN 0
    ELSE IF alt_plugin_id = mps_plugin_id
    THEN U64(avail_gres - bit_overlap(e.gres_bitmap, alt[1].gres_bit_alloc))
    ELSE avail_gres

\* lines 7007-7029
UseAllSockets(e, sockets, cores_per_sock) ==
    /\ ~e.core_bitmap.null
    /\ \A s \in 0 .. (sockets - 1) :
          \E j \in SockCores(s, cores_per_sock) : bit_test(e.core_bitmap, j)

\* lines 7049-7055
TotCores(e, core_bitmap, sockets, cores_per_sock) ==
    Min(IF core_bitmap.null THEN sockets * cores_per_sock
        ELSE Min(sockets * cores_per_sock, bit_size(core_bitmap)),
        bit_size(e.core_bitmap))

\* lines 7057-7080: socket s takes the entry
SockUsable(e, core_bitmap, s, cores_per_sock, enforce_binding, tot_cores) ==
    /\ \/ ~(enforce_binding /\ ~core_bitmap.null)
       \/ \E j \in SockCores(s, cores_per_sock) : bit_test(core_bitmap, j)
    /\ \E j \in SockCores(s, cores_per_sock) :
          j < tot_cores /\ bit_test(e.core_bitmap, j) /\ ~e.gres_bitmap.null

FirstOf(set, none) ==
    IF set = {} THEN none ELSE CHOOSE s \in set : \A t \in set : s <= t

\* -1: not constrained by core; sockets: no socket takes the entry
SockOf(e, core_bitmap, sockets, cores_per_sock, enforce_binding) ==
    IF e.core_bitmap.null \/ UseAllSockets(e, sockets, cores_per_sock)
    THEN 0 - 1
    ELSE FirstOf({s \in 0 .. (sockets - 1) :
                     SockUsable(e, core_bitmap, s, cores_per_sock,
                                enforce_binding,
                                TotCores(e, core_bitmap, sockets,
                                         cores_per_sock))}, sockets)

\* bit_copy into an empty slot, bit_or otherwise
BitsOr(slot, b) == IF slot.null THEN b ELSE bit_or(slot, b)

NewSockGres(sockets) ==
    [null |-> FALSE, type_id |-> 0, cnt_any_sock |-> 0, total_cnt |-> 0,
     max_node_gres |-> 0, bits_any_sock |-> NullBitmap,
     cnt_by_sock |-> [s \in 1 .. sockets |-> 0],
     bits_by_sock |-> [s \in 1 .. sockets |-> NullBitmap], match |-> FALSE]

\* lines 6998-7000
SockMaxNode(acc, avail_gres, main_plugin_id) ==
    IF main_plugin_id = mps_plugin_id /\ avail_gres > acc.max_node_gres
    THEN [acc EXCEPT !.max_node_gres = avail_gres]
    ELSE acc

\* lines 7034-7044 (s < 0) and 7081-7093
SockAdd(acc, e, avail_gres, s) ==
    IF s < 0
    THEN [acc EXCEPT !.cnt_any_sock = U64(@ + avail_gres),
                     !.total_cnt = U64(@ + avail_gres),
                     !.bits_any_sock = BitsOr(@, e.gres_bitmap),
                     !.match = TRUE]
    ELSE IF s >= Len(acc.cnt_by_sock) THEN acc
    ELSE [acc EXCEPT !.cnt_by_sock[s + 1] = U64(@ + avail_gres),
                     !.total_cnt = U64(@ + avail_gres),
                     !.bits_by_sock[s + 1] = BitsOr(@, e.gres_bitmap),
                     !.match = TRUE]

SockCount(q, e, avail_gres, acc) ==
    IF avail_gres = 0 THEN acc
    ELSE SockAdd(SockMaxNode(acc, avail_gres, q.main_plugin_id), e,
                 avail_gres,
                 SockOf(e, q.core_bitmap, q.sockets, q.cores_per_sock,
                        q.enforce_binding))

\* the loop over the topology, lines 6957-7096
RECURSIVE SockByTopoLoop(_, _, _, _)
SockByTopoLoop(q, use_busy_dev, i, acc) ==
    IF i > q.node.topo_cnt THEN acc
    ELSE SockByTopoLoop(q, use_busy_dev, i + 1,
             SockCount(q, q.node.topo[i],
                       AltFilter(EntryAvail(q.job, q.node, q.use_total_gres,
                                            use_busy_dev, q.node.topo[i]),
                                 q.node.topo[i], q.alt_plugin_id, q.alt),
                       acc))

\* lines 7104-7125
RECURSIVE PerSocketLimit(_, _, _)
PerSocketLimit(q, s, st) ==
    IF s >= q.sockets THEN st
    ELSE PerSocketLimit(q, s + 1,
        IF st.sg.cnt_by_sock[s + 1] < q.job.gres_per_socket
        THEN [st EXCEPT
                !.sg.total_cnt = U64(@ - st.sg.cnt_by_sock[s + 1]),
                !.sg.cnt_by_sock[s + 1] = 0,
                !.core_bitmap =
                    IF q.enforce_binding /\ ~@.null
                    THEN bit_nclear(@, s * q.cores_per_sock,
                                    s * q.cores_per_sock
                                        + q.cores_per_sock - 1)
                    ELSE @]
        ELSE IF st.sg.cnt_by_sock[s + 1] > q.job.gres_per_socket
        THEN [st EXCEPT
                !.sg.total_cnt =
                    U64(@ - (st.sg.cnt_by_sock[s + 1]
                                 - q.job.gres_per_socket)),
                !.sg.cnt_by_sock[s + 1] = q.job.gres_per_socket]
        ELSE st)

\* lines 7098-7126
SockLimited(q, st) ==
    IF st.sg.match /\ q.job.gres_per_socket # 0
    THEN PerSocketLimit(q, 0, st)
    ELSE st

\* avail_sock_flag, lines 7137-7148 and 7193-7209
AvailSockets(q, st) ==
    {s \in 0 .. (q.sockets - 1) :
        /\ st.sg.cnt_by_sock[s + 1] # 0
        /\ \E j \in SockCores(s, q.cores_per_sock) :
              bit_test(st.core_bitmap, j)}

\* lines 7150-7158 and 7219-7229: the first socket with the lowest, or the
\* highest, count
LowSock(cnt, flags) ==
    CHOOSE s \in flags :
        \A t \in flags :
            cnt[s + 1] < cnt[t + 1] \/ (cnt[s + 1] = cnt[t + 1] /\ s <= t)
BestSock(cnt, flags) ==
    CHOOSE s \in flags :
        \A t \in flags :
            cnt[s + 1] > cnt[t + 1] \/ (cnt[s + 1] = cnt[t + 1] /\ s <= t)

\* lines 7149-7168
RECURSIVE DropLowSockets(_, _, _)
DropLowSockets(q, flags, st) ==
    IF Cardinality(flags) <= q.s_p_n THEN st
    ELSE DropLowSockets(q, flags \ {LowSock(st.sg.cnt_by_sock, flags)},
        [st EXCEPT
            !.sg.total_cnt =
                U64(@ - st.sg.cnt_by_sock[
                            LowSock(st.sg.cnt_by_sock, flags) + 1]),
            !.sg.cnt_by_sock[LowSock(st.sg.cnt_by_sock, flags) + 1] = 0,
            !.core_bitmap =
                bit_nclear(@,
                    LowSock(st.sg.cnt_by_sock, flags) * q.cores_per_sock,
                    LowSock(st.sg.cnt_by_sock, flags) * q.cores_per_sock
                        + q.cores_per_sock - 1)])

\* lines 7134-7170
SockPerNode(q, st) ==
    IF st.sg.match /\ q.enforce_binding /\ ~st.core_bitmap.null
       /\ q.s_p_n < q.sockets
    THEN DropLowSockets(q, AvailSockets(q, st), st)
    ELSE st

\* "min_gres" of lines 7173-7176
MinNodeGres(job) ==
    Max(IF job.gres_per_node # 0 THEN job.gres_per_node ELSE 1,
        job.gres_per_task)

\* lines 7172-7179
SockMinGres(q, st) ==
    IF st.sg.match /\ st.sg.total_cnt < MinNodeGres(q.job)
    THEN [st EXCEPT !.sg.match = FALSE]
    ELSE st

\* lines 7210-7230; add_gres is signed
RECURSIVE ReqSockets(_, _, _, _)
ReqSockets(cnt, flags, add_gres, map) ==
    IF flags = {} \/ add_gres <= 0 THEN map
    ELSE ReqSockets(cnt, flags \ {BestSock(cnt, flags)},
                    add_gres - cnt[BestSock(cnt, flags) + 1],
                    map \cup {BestSock(cnt, flags)})

\* lines 7188-7232
SockRequired(q, st) ==
    IF /\ st.sg.match /\ ~st.core_bitmap.null /\ q.s_p_n = NO_VAL
       /\ MinNodeGres(q.job) - st.sg.cnt_any_sock > 0
       /\ q.job.gres_per_node # 0
       /\ AvailSockets(q, st) # {}
    THEN [st EXCEPT !.req_sock_map =
             [null |-> FALSE, size |-> q.sockets,
              bits |-> ReqSockets(st.sg.cnt_by_sock, AvailSockets(q, st),
                                  MinNodeGres(q.job) - st.sg.cnt_any_sock,
                                  IF @.null THEN {} ELSE @.bits)]]
    ELSE st

\* lines 7234-7241
SockResult(q, st) ==
    IF st.sg.match THEN [st EXCEPT !.sg.type_id = q.job.type_id]
    ELSE [st EXCEPT !.sg.null = TRUE]

\* the request q: job, node, use_total_gres, core_bitmap, sockets,
\* cores_per_sock, enforce_binding, s_p_n, req_sock_map, main_plugin_id,
\* alt_plugin_id, alt
_build_sock_gres_by_topo(q) ==
    IF q.node.gres_cnt_avail = 0
    THEN [sg |-> [NewSockGres(q.sockets) EXCEPT !.null = TRUE],
          core_bitmap |-> q.core_bitmap, req_sock_map |-> q.req_sock_map]
    ELSE SockResult(q, SockRequired(q, SockMinGres(q, SockPerNode(q,
             SockLimited(q,
                 [sg |-> SockByTopoLoop(q,
                             /\ ~q.use_total_gres
                             /\ gres_id_shared(q.main_plugin_id)
                             /\ q.node.gres_cnt_alloc # 0,
                             1, NewSockGres(q.sockets)),
                  core_bitmap |-> q.core_bitmap,
                  req_sock_map |-> q.req_sock_map])))))

\* lines 7445-7464: the alternate kind and its record on the node; NoPlugin
\* is the alt_plugin_id of 0
NoPlugin == "none"
AltPluginId(plugin_id, node_list, use_total_gres, gpu_loaded, mps_loaded) ==
    IF ~use_total_gres /\ gpu_loaded /\ mps_loaded
    THEN IF plugin_id = mps_plugin_id /\ FindId(node_list, gpu_plugin_id) # 0
         THEN gpu_plugin_id
         ELSE IF plugin_id = gpu_plugin_id
                 /\ FindId(node_list, mps_plugin_id) # 0
         THEN mps_plugin_id
         ELSE NoPlugin
    ELSE NoPlugin

AltNode(node_list, alt_plugin_id) ==
    IF alt_plugin_id = NoPlugin THEN <<>>
    ELSE <<GresData(node_list, alt_plugin_id)>>

\* lines 7437-7441
LocalSpn(job, s_p_n) ==
    IF job.gres_per_job # 0 /\ job.gres_per_socket = 0 THEN s_p_n ELSE NO_VAL

\* lines 7442-7486: the builder chosen for one record of the job
SockGresOf(rq, job_rec, node, st) ==
    IF ~st.core_bitmap.null /\ st.core_bitmap.bits = {}
    THEN [sg |-> NoSockGres, core_bitmap |-> st.core_bitmap,
          req_sock_map |-> st.req_sock_map]
    ELSE IF node.topo_cnt # 0
    THEN _build_sock_gres_by_topo(
             [job |-> job_rec.gres_data, node |-> node,
              use_total_gres |-> rq.use_total_gres,
              core_bitmap |-> st.core_bitmap, sockets |-> rq.sockets,
              cores_per_sock |-> rq.cores_per_sock,
              enforce_binding |-> rq.enforce_binding,
              s_p_n |-> LocalSpn(job_rec.gres_data, rq.s_p_n),
              req_sock_map |-> st.req_sock_map,
              main_plugin_id |-> job_rec.plugin_id,
              alt_plugin_id |->
                  AltPluginId(job_rec.plugin_id, rq.node_list,
                              rq.use_total_gres, rq.have_gpu, rq.have_mps),
              alt |-> AltNode(rq.node_list,
                          AltPluginId(job_rec.plugin_id, rq.node_list,
                                      rq.use_total_gres, rq.have_gpu,
                                      rq.have_mps))])
    ELSE [sg |-> IF Len(node.types) # 0
                 THEN _build_sock_gres_by_type(job_rec.gres_data, node,
                                               rq.use_total_gres)
                 ELSE _build_sock_gres_basic(job_rec.gres_data, node,
                                             rq.use_total_gres),
          core_bitmap |-> st.core_bitmap, req_sock_map |-> st.req_sock_map]

\* lines 7487-7497
SockAppend(st, built, plugin_id) ==
    IF built.sg.null
    THEN [null |-> TRUE, sock_gres_list |-> <<>>,
          core_bitmap |-> bit_clear_all(built.core_bitmap),
          req_sock_map |-> built.req_sock_map]
    ELSE [null |-> FALSE,
          sock_gres_list |->
              Append(st.sock_gres_list,
                     built.sg @@ [plugin_id |-> plugin_id]),
          core_bitmap |-> built.core_bitmap,
          req_sock_map |-> built.req_sock_map]

\* the loop of gres_job_test2, lines 7425-7498
RECURSIVE SockTestLoop(_, _, _)
SockTestLoop(rq, k, st) ==
    IF k > Len(rq.job_list) \/ st.null THEN st
    ELSE IF FindId(rq.node_list, rq.job_list[k].plugin_id) = 0
    THEN [st EXCEPT !.null = TRUE, !.sock_gres_list = <<>>]
    ELSE SockTestLoop(rq, k + 1,
             SockAppend(st,
                 SockGresOf(rq, rq.job_list[k],
                            GresData(rq.node_list, rq.job_list[k].plugin_id),
                            st),
                 rq.job_list[k].plugin_id))

\* gres_job_test2, lines 7401-7506
SockTest(rq) ==
    IF Len(rq.job_list) = 0
    THEN [null |-> TRUE, sock_gres_list |-> <<>>,
          core_bitmap |-> rq.core_bitmap, req_sock_map |-> NullBitmap]
    ELSE SockTestLoop(rq, 1,
             [null |-> FALSE, sock_gres_list |-> <<>>,
              core_bitmap |-> rq.core_bitmap, req_sock_map |-> NullBitmap])

\* the nodes: NumGpus devices, each its own topology entry on its own
\* socket (split) or all of them one entry bound to no core; busy devices
\* are allocated whole by gres/gpu, at most one other device is shared out
\* by gres/mps
Gpus == 0 .. (NumGpus - 1)
GpuBits(b) == [null |-> FALSE, size |-> NumGpus, bits |-> b]
SockCoreBits(socks) ==
    [null |-> FALSE, size |-> SockCnt * CoresPerSock,
     bits |-> UNION {SockCores(s, CoresPerSock) : s \in socks}]
SockTopoEntry(gres_bits, cores, avail, alloc) ==
    [EmptyTopo EXCEPT !.gres_bitmap = GpuBits(gres_bits),
                      !.core_bitmap = cores, !.cnt_avail = avail,
                      !.cnt_alloc = alloc]
DevCores(split, g) ==
    IF split THEN SockCoreBits({g % SockCnt}) ELSE NullBitmap

GpuTopo(split, busy) ==
    IF split
    THEN [i \in 1 .. NumGpus |->
             SockTopoEntry({i - 1}, DevCores(TRUE, i - 1), 1,
                           IF (i - 1) \in busy THEN 1 ELSE 0)]
    ELSE <<SockTopoEntry(Gpus, NullBitmap, NumGpus, Cardinality(busy))>>

MpsTopo(split, shared, used) ==
    [i \in 1 .. NumGpus |->
        SockTopoEntry({i - 1}, DevCores(split, i - 1), MpsPerGpu,
                      IF (i - 1) = shared THEN used ELSE 0)]

SockNode(topo, bound) ==
    [TopoNode(topo) EXCEPT !.gres_bit_alloc = bound]

GpuNode(split, busy, bitless) ==
    [plugin_id |-> gpu_plugin_id,
     gres_data |-> SockNode(GpuTopo(split, busy),
                            IF bitless THEN NullBitmap ELSE GpuBits(busy))]
MpsNode(split, shared, used) ==
    [plugin_id |-> mps_plugin_id,
     gres_data |-> SockNode(MpsTopo(split, shared, used),
                            IF shared \in Gpus THEN GpuBits({shared})
                            ELSE NullBitmap)]

SockNodeMenu ==
    {<<GpuNode(split, busy, bitless)>> :
        split \in BOOLEAN, busy \in SUBSET Gpus, bitless \in {FALSE}}
    \cup
    {<<GpuNode(split, {}, TRUE)>> : split \in BOOLEAN}
    \cup
    UNION {{<<GpuNode(split, busy, FALSE), MpsNode(split, shared, used)>> :
               shared \in (Gpus \ busy) \cup {NumGpus},
               used \in 1 .. MpsPerGpu} :
           split \in BOOLEAN, busy \in SUBSET Gpus}

SockNicMenu ==
    {<<>>, <<[plugin_id |-> nic_plugin_id, gres_data |-> PlainNode(1, 0)]>>}

SockJob(id, per_job, per_node, per_socket) ==
    [plugin_id |-> id,
     gres_data |-> [type_id |-> 0, gres_per_job |-> per_job,
                    gres_per_node |-> per_node,
                    gres_per_socket |-> per_socket, gres_per_task |-> 0]]

SockJobMenu ==
    {<<SockJob(id, per_job, per_node, per_socket)>> :
        id \in {gpu_plugin_id, mps_plugin_id}, per_job \in 0 .. 1,
        per_node \in 0 .. NumGpus, per_socket \in 0 .. 1}
    \cup
    {<<SockJob(id, 0, 1, 0), SockJob(nic_plugin_id, 0, 1, 0)>> :
        id \in {gpu_plugin_id, mps_plugin_id}}

SockCoreMenu ==
    {SockCoreBits(socks) : socks \in {{}, {0}, 0 .. (SockCnt - 1)}}

SockFrame ==
    UNCHANGED <<gres_list, gres_conf_list, gres_context, node_gres, last, fit,
                lk, ser, reg, jv, cnf, ld, ini, tl, rv, pk, wt, gm>>

gres_job_test2_topo ==
    /\ sk.pc = "new"
    /\ \E job_list \in SockJobMenu, use_total_gres \in BOOLEAN,
          core_bitmap \in SockCoreMenu, enforce_binding \in BOOLEAN,
          s_p_n \in {1, NO_VAL} :
          \E rq \in {[job_list |-> job_list, node_list |-> sk.node_list,
                      use_total_gres |-> use_total_gres,
                      core_bitmap |-> core_bitmap, sockets |-> SockCnt,
                      cores_per_sock |-> CoresPerSock,
                      enforce_binding |-> enforce_binding, s_p_n |-> s_p_n,
                      have_gpu |-> sk.have_gpu, have_mps |-> sk.have_mps]} :
              sk' = [sk EXCEPT !.pc = "done", !.rq = rq,
                               !.out = SockTest(rq)]
    /\ SockFrame

InitSock ==
    /\ gres_list = <<>>
    /\ gres_conf_list = <<>>
    /\ gres_context = [id \in Kinds |->
                          [has_file |-> FALSE, has_type |-> FALSE,
                           total_cnt |-> 0]]
    /\ node_gres = <<>>
    /\ last = [op |-> "none", rc |-> SLURM_SUCCESS, n |-> 0, prev |-> "none"]
    /\ fit = FitIdle
    /\ lk = LockIdle
    /\ ser = SerIdle
    /\ reg = RegIdle
    /\ jv = JvIdle
    /\ cnf = CnfIdle
    /\ ld = LdIdle
    /\ ini = IniIdle
    /\ tl = TlIdle
    /\ rv = RvIdle
    /\ pk = PkIdle
    /\ wt = WtIdle
    /\ gm = GmIdle
    /\ \E devs \in SockNodeMenu, nic \in SockNicMenu, mps_loaded \in BOOLEAN :
          /\ FindId(devs, mps_plugin_id) # 0 => mps_loaded
          /\ sk = [pc |-> "new", node_list |-> devs \o nic,
                   have_gpu |-> TRUE, have_mps |-> mps_loaded,
                   rq |-> <<>>, out |-> <<>>]

NextSock == gres_job_test2_topo

SpecSock == InitSock /\ [][NextSock]_vars

\* the units of a kind's topology that the alternate kind has not bound:
\* an entry the sharing kind holds a device of gives nothing to the shared
\* kind, an entry the shared kind holds devices of gives the sharing kind
\* what is left without them
Monus(a, b) == IF a >= b THEN a - b ELSE 0
UnboundOfEntry(e, alt_bits, main_plugin_id) ==
    IF bit_overlap(e.gres_bitmap, alt_bits) = 0
    THEN Monus(e.cnt_avail, e.cnt_alloc)
    ELSE IF main_plugin_id = mps_plugin_id THEN 0
    ELSE Monus(Monus(e.cnt_avail, e.cnt_alloc),
               bit_overlap(e.gres_bitmap, alt_bits))
RECURSIVE UnboundUnits(_, _, _, _)
UnboundUnits(topo, i, alt_bits, main_plugin_id) ==
    IF i > Len(topo) THEN 0
    ELSE UnboundOfEntry(topo[i], alt_bits, main_plugin_id)
             + UnboundUnits(topo, i + 1, alt_bits, main_plugin_id)

RECURSIVE SumBySock(_, _)
SumBySock(cnt, s) == IF s > Len(cnt) THEN 0 ELSE cnt[s] + SumBySock(cnt, s + 1)

AlternateOf(plugin_id) ==
    IF plugin_id = gpu_plugin_id THEN mps_plugin_id ELSE gpu_plugin_id

\* record k of the result is of the gpu/mps pair and the node's record of
\* the other kind has devices bound
AltHasBound(k) ==
    /\ sk.out.sock_gres_list[k].plugin_id \in {gpu_plugin_id, mps_plugin_id}
    /\ FindId(sk.node_list,
              AlternateOf(sk.out.sock_gres_list[k].plugin_id)) # 0
    /\ GresData(sk.node_list,
                AlternateOf(sk.out.sock_gres_list[k].plugin_id))
           .gres_bit_alloc.bits # {}

UnboundFor(k) ==
    UnboundUnits(GresData(sk.node_list,
                          sk.out.sock_gres_list[k].plugin_id).topo, 1,
                 GresData(sk.node_list,
                          AlternateOf(sk.out.sock_gres_list[k].plugin_id))
                     .gres_bit_alloc,
                 sk.out.sock_gres_list[k].plugin_id)

\* C34: when allocations are taken into account, what the per-socket
\* breakdown counts for one kind of the gpu/mps pair, in total and over its
\* buckets, never exceeds the units of its topology entries that the other
\* kind has not bound: an entry holding a device gres/gpu has allocated
\* gives gres/mps nothing, and a gres/gpu entry is reduced by the devices
\* gres/mps has shared out
C34_NoDoubleCount ==
    sk.pc = "done" /\ ~sk.rq.use_total_gres =>
        \A k \in 1 .. Len(sk.out.sock_gres_list) :
            AltHasBound(k) =>
                /\ sk.out.sock_gres_list[k].total_cnt <= UnboundFor(k)
                /\ sk.out.sock_gres_list[k].cnt_any_sock
                       + SumBySock(sk.out.sock_gres_list[k].cnt_by_sock, 1)
                   <= UnboundFor(k)

\* gres/gpu is asked for on a node where one entry holds every device and
\* gres/mps has shared one of them out: the other device is counted
C34_Witness ==
    /\ sk.pc = "done" /\ ~sk.rq.use_total_gres
    /\ Len(sk.out.sock_gres_list) = 1
    /\ sk.out.sock_gres_list[1].plugin_id = gpu_plugin_id
    /\ AltHasBound(1)
    /\ GresData(sk.node_list, gpu_plugin_id).topo_cnt = 1
    /\ GresData(sk.node_list, gpu_plugin_id).gres_cnt_alloc = 0
    /\ sk.out.sock_gres_list[1].total_cnt = NumGpus - 1

(***************************************************************************)
(* The greedy pick over the topology in _job_test, lines 6639-6712, one    *)
(* iteration of the while loop per step.  before and addnt are cores_avail *)
(* and cores_addnt as the iteration's scan of lines 6641-6658 saw them,    *)
(* picked its top_inx (0 for -1).                                          *)
(***************************************************************************)
PickCores == 4          \* cores of the node
MaxTopo == 3            \* topology entries of the node

\* one iteration: s is the loop's state, top_inx the entry the scan chose
PickOne(node, use_total_gres, shared_gres, has_core_bitmap, avail_core_bitmap, min_gres_node, top_inx, s) ==
    IF top_inx = 0 \/ s.cores_avail[top_inx] = 0
    THEN [stop |-> TRUE,
          s |-> [s EXCEPT !.top_inx = top_inx,
                          !.core_cnt = IF s.gres_total < min_gres_node
                                       THEN 0 ELSE @]]
    ELSE IF TopoRemaining(node.topo[top_inx], use_total_gres) = 0
    THEN [stop |-> TRUE,
          s |-> [s EXCEPT !.top_inx = top_inx, !.cores_avail[top_inx] = 0]]
    ELSE IF shared_gres
    THEN [stop |-> FALSE,
          s |-> [s EXCEPT
                    !.top_inx = top_inx, !.cores_avail[top_inx] = 0,
                    !.gres_total =
                        Max(@, TopoRemaining(node.topo[top_inx],
                                             use_total_gres)),
                    !.gres_avail =
                        Max(s.gres_total,
                            TopoRemaining(node.topo[top_inx],
                                          use_total_gres)),
                    !.chosen = Append(@, top_inx)]]
    ELSE [stop |-> FALSE,
          s |-> [s EXCEPT
                    !.top_inx = top_inx, !.cores_avail[top_inx] = 0,
                    !.alloc_core_bitmap =
                        AllocCores(node.topo[top_inx], s.gres_avail, @,
                                   avail_core_bitmap, has_core_bitmap),
                    !.gres_avail = U64(@ + 1),
                    !.gres_total =
                        U64(@ + TopoRemaining(node.topo[top_inx],
                                              use_total_gres)),
                    !.core_cnt =
                        bit_set_count(
                            AllocCores(node.topo[top_inx], s.gres_avail,
                                       s.alloc_core_bitmap,
                                       avail_core_bitmap, has_core_bitmap)),
                    !.chosen = Append(@, top_inx)]]

PickFrame ==
    UNCHANGED <<gres_list, gres_conf_list, gres_context, node_gres, last, fit,
                lk, ser, reg, jv, cnf, ld, ini, tl, rv, sk, wt, gm>>

\* lines 6639-6712, one pass of the while loop
PickStep ==
    /\ pk.pc = "pick"
    /\ pk.s.gres_avail < pk.min_gres_node
    /\ \E cores_addnt \in {CoresAddnt(pk.node, pk.s.gres_avail,
                                      pk.s.cores_avail,
                                      pk.s.alloc_core_bitmap)} :
          \E top_inx \in {TopInxLoop(cores_addnt, pk.s.cores_avail, 1,
                                     pk.node.topo_cnt, 0)} :
              \E r \in {PickOne(pk.node, pk.use_total_gres, pk.shared_gres,
                                pk.has_core_bitmap, pk.avail_core_bitmap,
                                pk.min_gres_node, top_inx, pk.s)} :
                  pk' = [pk EXCEPT !.pc = IF r.stop THEN "done" ELSE "pick",
                                   !.s = r.s, !.before = pk.s.cores_avail,
                                   !.addnt = cores_addnt,
                                   !.picked = top_inx]
    /\ PickFrame

\* line 6639: the job has what it needs
PickEnd ==
    /\ pk.pc = "pick"
    /\ pk.s.gres_avail >= pk.min_gres_node
    /\ pk' = [pk EXCEPT !.pc = "done"]
    /\ PickFrame

PickCoreSets == {{0}, 0 .. 1, 2 .. 3, 0 .. (PickCores - 1)}
PickEntryMenu ==
    {TopoEntry(NullBitmap, 1, 0)} \cup
    {TopoEntry([null |-> FALSE, size |-> PickCores, bits |-> c], 2, 0) :
        c \in PickCoreSets} \cup
    {TopoEntry([null |-> FALSE, size |-> PickCores, bits |-> 0 .. 1], 1, 1)}
PickTopoMenu ==
    UNION {[1 .. n -> PickEntryMenu] : n \in 1 .. MaxTopo}
PickCandidateMenu ==
    {NullBitmap} \cup
    {[null |-> FALSE, size |-> PickCores, bits |-> c] :
        c \in {0 .. (PickCores - 1), 0 .. 2, 1 .. 2}}
PickJob(n) ==
    [type_id |-> 0, gres_per_job |-> 0, gres_per_node |-> n,
     gres_per_socket |-> 0, gres_per_task |-> 0]

\* lines 6589-6634: the state the while loop starts in
PickStart(node, use_total_gres, shared_gres, core_bitmap, n) ==
    [pc |-> "pick", node |-> node, use_total_gres |-> use_total_gres,
     shared_gres |-> shared_gres, has_core_bitmap |-> ~core_bitmap.null,
     avail_core_bitmap |->
         IF core_bitmap.null THEN bit_set_all(bit_alloc(PickCores))
         ELSE core_bitmap,
     min_gres_node |-> MinGresNode(PickJob(n)),
     s |-> [gres_avail |-> 0, gres_total |-> 0,
            cores_avail |->
                CoresAvail(PickJob(n), node, use_total_gres,
                           ~use_total_gres /\ shared_gres
                               /\ node.gres_cnt_alloc # 0,
                           core_bitmap, 0, PickCores - 1),
            alloc_core_bitmap |->
                IF core_bitmap.null THEN bit_set_all(bit_alloc(PickCores))
                ELSE core_bitmap,
            core_cnt |-> 0, top_inx |-> 0, chosen |-> <<>>],
     start |-> [gres_avail |-> 0, gres_total |-> 0,
                cores_avail |->
                    CoresAvail(PickJob(n), node, use_total_gres,
                               ~use_total_gres /\ shared_gres
                                   /\ node.gres_cnt_alloc # 0,
                               core_bitmap, 0, PickCores - 1),
                alloc_core_bitmap |->
                    IF core_bitmap.null
                    THEN bit_set_all(bit_alloc(PickCores))
                    ELSE core_bitmap,
                core_cnt |-> 0, top_inx |-> 0, chosen |-> <<>>],
     before |-> <<>>, addnt |-> <<>>, picked |-> 0]

InitPick ==
    /\ gres_list = <<>>
    /\ gres_conf_list = <<>>
    /\ gres_context = [id \in Kinds |->
                          [has_file |-> FALSE, has_type |-> FALSE,
                           total_cnt |-> 0]]
    /\ node_gres = <<>>
    /\ last = [op |-> "none", rc |-> SLURM_SUCCESS, n |-> 0, prev |-> "none"]
    /\ fit = FitIdle
    /\ lk = LockIdle
    /\ ser = SerIdle
    /\ reg = RegIdle
    /\ jv = JvIdle
    /\ cnf = CnfIdle
    /\ ld = LdIdle
    /\ ini = IniIdle
    /\ tl = TlIdle
    /\ rv = RvIdle
    /\ sk = SkIdle
    /\ wt = WtIdle
    /\ gm = GmIdle
    /\ \E topo \in PickTopoMenu, use_total_gres \in BOOLEAN,
          shared_gres \in BOOLEAN, core_bitmap \in PickCandidateMenu,
          n \in 1 .. MaxTopo :
          pk = PickStart(TopoNode(topo), use_total_gres, shared_gres,
                         core_bitmap, n)

NextPick == PickStep \/ PickEnd

SpecPick == InitPick /\ [][NextPick]_vars

\* the entries the scan could choose from: those with candidate cores left
PickCandidates == {j \in 1 .. Len(pk.before) : pk.before[j] # 0}

\* C35: the entry an iteration picks is among the entries that still have
\* candidate cores, none of them adds more cores than it does, and of those
\* that add as many it is the first in the order of the topology
C35_FirstOfTiedWins ==
    pk.picked # 0 =>
        /\ pk.picked \in PickCandidates
        /\ \A j \in PickCandidates :
              /\ pk.addnt[j] <= pk.addnt[pk.picked]
              /\ pk.addnt[j] = pk.addnt[pk.picked] => pk.picked <= j

\* a second or later pick, where the cores already committed count against
\* each entry, with a later entry adding exactly as many cores
C35_Witness ==
    /\ pk.picked # 0
    /\ Len(pk.s.chosen) >= 2
    /\ pk.s.chosen[Len(pk.s.chosen)] = pk.picked
    /\ \E j \in PickCandidates :
          j > pk.picked /\ pk.addnt[j] = pk.addnt[pk.picked]

(***************************************************************************)
(* _validate_file and _my_stat: the wait for the device files of one       *)
(* gres.conf line, a step per loop test, sleep and stat call.  stats and   *)
(* sleeps count the stat and sleep calls made for the current file.        *)
(***************************************************************************)
StatTries == 20         \* "i < 20", line 841
MaxFiles == 2           \* file names of the File= expression

\* one try too many
OneMoreTry(i) == i <= StatTries

\* the loop test of line 841
MoreTries(i) == i < StatTries

StatFrame ==
    UNCHANGED <<gres_list, gres_conf_list, gres_context, node_gres, last, fit,
                lk, ser, reg, jv, cnf, ld, ini, tl, rv, sk, pk, gm>>

\* lines 871-872 and 838-839: the next file name, if any, is waited for
\* only in slurmd and slurmstepd
ValidateFileShift ==
    /\ wt.pc = "shift"
    /\ wt' = IF wt.files_left = 0 THEN [wt EXCEPT !.pc = "done"]
             ELSE IF ~wt.in_slurmd_stepd
             THEN [wt EXCEPT !.files_left = @ - 1, !.file_count = @ + 1]
             ELSE [wt EXCEPT !.pc = "loop", !.i = 0, !.sent_msg = FALSE,
                             !.stats = 0, !.sleeps = 0]
    /\ StatFrame

\* lines 841-843 and 858: the loop test, then whether to sleep first
MyStatLoop ==
    /\ wt.pc = "loop"
    /\ wt' = [wt EXCEPT !.pc = IF ~MoreTries(wt.i) THEN "fatal"
                               ELSE IF wt.i # 0 THEN "sleep" ELSE "stat"]
    /\ StatFrame

\* line 843: sleep(1)
MyStatSleep ==
    /\ wt.pc = "sleep"
    /\ wt' = [wt EXCEPT !.pc = "stat", !.sleeps = @ + 1]
    /\ StatFrame

\* lines 844-856: stat() finds the file, or fails with ENOENT, or fails
\* with another error
MyStatStat ==
    /\ wt.pc = "stat"
    /\ \E result \in {"found", "ENOENT", "other"} :
          wt' = IF result = "found"
                THEN [wt EXCEPT !.pc = "shift", !.stats = @ + 1,
                                !.files_left = @ - 1, !.file_count = @ + 1]
                ELSE IF result = "other"
                THEN [wt EXCEPT !.pc = "fatal", !.stats = @ + 1]
                ELSE [wt EXCEPT !.pc = "loop", !.stats = @ + 1,
                                !.sent_msg = TRUE, !.i = @ + 1]
    /\ StatFrame

\* line 858: fatal() ends the process
MyStatFatal ==
    /\ wt.pc = "fatal"
    /\ wt' = [wt EXCEPT !.pc = "exit"]
    /\ StatFrame

InitStat ==
    /\ gres_list = <<>>
    /\ gres_conf_list = <<>>
    /\ gres_context = [id \in Kinds |->
                          [has_file |-> FALSE, has_type |-> FALSE,
                           total_cnt |-> 0]]
    /\ node_gres = <<>>
    /\ last = [op |-> "none", rc |-> SLURM_SUCCESS, n |-> 0, prev |-> "none"]
    /\ fit = FitIdle
    /\ lk = LockIdle
    /\ ser = SerIdle
    /\ reg = RegIdle
    /\ jv = JvIdle
    /\ cnf = CnfIdle
    /\ ld = LdIdle
    /\ ini = IniIdle
    /\ tl = TlIdle
    /\ rv = RvIdle
    /\ sk = SkIdle
    /\ pk = PkIdle
    /\ gm = GmIdle
    /\ \E files \in 1 .. MaxFiles, in_slurmd_stepd \in BOOLEAN :
          wt = [pc |-> "shift", files_left |-> files, file_count |-> 0,
                in_slurmd_stepd |-> in_slurmd_stepd, i |-> 0,
                sent_msg |-> FALSE, stats |-> 0, sleeps |-> 0]

NextStat ==
    \/ ValidateFileShift
    \/ MyStatLoop
    \/ MyStatSleep
    \/ MyStatStat
    \/ MyStatFatal

SpecStat == InitStat /\ [][NextStat]_vars

\* sleep() and stat() return and the daemon keeps running
SpecStatFair == SpecStat /\ WF_vars(NextStat)

\* C36: a wait that has begun ends, with the file found or the process
\* ended by fatal(), after at most StatTries stat calls with a sleep of one
\* second before each but the first
C36_WaitEnds ==
    (wt.pc = "loop" /\ wt.i = 0)
        ~> (/\ wt.pc \in {"shift", "exit"}
            /\ wt.stats <= StatTries
            /\ wt.sleeps < StatTries
            /\ wt.sleeps < wt.stats)

\* the file never appeared: StatTries stat calls, then fatal()
C36_Witness ==
    /\ wt.pc = "exit"
    /\ wt.stats = StatTries
    /\ wt.sleeps = StatTries - 1
    /\ wt.sent_msg

(***************************************************************************)
(* _get_gres_map and _get_gres_mask: the lookup of a task's devices in a   *)
(* --gpu-bind map or mask string, a step per token.  The string is its     *)
(* characters (ASCII codes); task_offset is an int of IntRange values.     *)
(***************************************************************************)
MaxMapLen == 4          \* characters of the map or mask string
MaxTaskId == 2          \* largest local_proc_id

\* '0', '1', ',', '*' and '-'
MapChars == {48, 49, 44, 42, 45}

\* strchr(s, c): the index of the first c in s, 0 for NULL
strchr(s, c) ==
    IF \E i \in 1 .. Len(s) : s[i] = c
    THEN CHOOSE i \in 1 .. Len(s) :
            s[i] = c /\ \A j \in 1 .. (i - 1) : s[j] # c
    ELSE 0

\* the digits of s from index i on, read in the given base
RECURSIVE DigitsVal(_, _, _, _)
DigitsVal(s, i, base, val) ==
    IF i <= Len(s) /\ IsDigit(s[i]) /\ s[i] - 48 < base
    THEN DigitsVal(s, i + 1, base, val * base + (s[i] - 48))
    ELSE val

\* strtol(s, NULL, base) for base 10 and for base 0, where a leading 0
\* announces an octal number; a string without digits gives 0
strtol(s, base) ==
    IF Len(s) > 0 /\ s[1] = 45
    THEN 0 - DigitsVal(s, 2,
                       IF base = 0
                       THEN (IF Len(s) > 1 /\ s[2] = 48 THEN 8 ELSE 10)
                       ELSE base, 0)
    ELSE DigitsVal(s, 1,
                   IF base = 0
                   THEN (IF Len(s) > 0 /\ s[1] = 48 THEN 8 ELSE 10)
                   ELSE base, 0)

atoi(s) == strtol(s, 10)

\* lines 8973-8981 and 9024-9031: the repetition count of a token
TaskMult(tok) ==
    IF strchr(tok, 42) = 0 THEN 1
    ELSE IF atoi(SubSeq(tok, strchr(tok, 42) + 1, Len(tok))) = 0 THEN 1
    ELSE atoi(SubSeq(tok, strchr(tok, 42) + 1, Len(tok)))

\* lines 8984 and 9034: strtol stops at the '*'
TokValue(tok) ==
    strtol(IF strchr(tok, 42) = 0 THEN tok
           ELSE SubSeq(tok, 1, strchr(tok, 42) - 1), 0)

\* lines 8985-8986 and 9035-9036; a negative mask is a large uint64_t, and
\* 0xffffffff is the largest uint32_t
BadValue(is_mask, value) ==
    IF is_mask THEN value <= 0 \/ value >= U32Range - 1
    ELSE value < 0 \/ value >= MAX_GRES_BITMAP

\* lines 8991-8992 and 9041-9045; an accepted mask has no bit above 30
UsableGres(is_mask, value) ==
    [null |-> FALSE, size |-> MAX_GRES_BITMAP,
     bits |-> IF is_mask
              THEN {i \in 0 .. 30 : (value \div (2 ^ i)) % 2 = 1}
              ELSE {value}]

InInt(x) == x >= 0 - (IntRange \div 2) /\ x < IntRange \div 2

MapFrame ==
    UNCHANGED <<gres_list, gres_conf_list, gres_context, node_gres, last, fit,
                lk, ser, reg, jv, cnf, ld, ini, tl, rv, sk, pk, wt>>

\* lines 8966-8971 and 9017-9022
GetGresCall ==
    /\ gm.pc = "call"
    /\ gm' = IF Len(gm.str) = 0
             THEN [gm EXCEPT !.pc = "done"]
             ELSE [gm EXCEPT !.pc = "tok", !.toks = Strtok(gm.str, 44, 1, <<>>),
                             !.k = 1, !.task_offset = 0]
    /\ MapFrame

\* token k with its range [task_offset, hi] and the offset after it
TokenOutcome(g, hi, next_offset) ==
    IF g.local_proc_id >= g.task_offset /\ g.local_proc_id <= hi
    THEN IF BadValue(g.is_mask, TokValue(g.toks[g.k]))
         THEN [g EXCEPT !.pc = "done"]
         ELSE [g EXCEPT !.pc = "done",
                        !.usable_gres =
                            UsableGres(g.is_mask, TokValue(g.toks[g.k]))]
    ELSE [g EXCEPT !.task_offset = next_offset, !.k = @ + 1]

\* lines 8972-8998 and 9023-9051 for one token; an int that overflows wraps
\* around or ends the process
GetGresToken ==
    /\ gm.pc = "tok"
    /\ gm.k <= Len(gm.toks)
    /\ \E m \in {TaskMult(gm.toks[gm.k])} :
          IF InInt(gm.task_offset + m) /\ InInt(gm.task_offset + m - 1)
          THEN gm' = TokenOutcome(gm, gm.task_offset + m - 1,
                                  gm.task_offset + m)
          ELSE \/ gm' = TokenOutcome(gm, ToInt(gm.task_offset + m - 1),
                                     ToInt(gm.task_offset + m))
               \/ gm' = [gm EXCEPT !.pc = "abort"]
    /\ MapFrame

\* lines 8998-9000 and 8969-8971: the tokens are used up, usable_gres is
\* still NULL and the string is split again; task_offset is kept, pass is
\* the parity of the passes made
GetGresAgain ==
    /\ gm.pc = "tok"
    /\ gm.k > Len(gm.toks)
    /\ gm' = [gm EXCEPT !.k = 1, !.pass = 1 - @]
    /\ MapFrame

InitMap ==
    /\ gres_list = <<>>
    /\ gres_conf_list = <<>>
    /\ gres_context = [id \in Kinds |->
                          [has_file |-> FALSE, has_type |-> FALSE,
                           total_cnt |-> 0]]
    /\ node_gres = <<>>
    /\ last = [op |-> "none", rc |-> SLURM_SUCCESS, n |-> 0, prev |-> "none"]
    /\ fit = FitIdle
    /\ lk = LockIdle
    /\ ser = SerIdle
    /\ reg = RegIdle
    /\ jv = JvIdle
    /\ cnf = CnfIdle
    /\ ld = LdIdle
    /\ ini = IniIdle
    /\ tl = TlIdle
    /\ rv = RvIdle
    /\ sk = SkIdle
    /\ pk = PkIdle
    /\ wt = WtIdle
    /\ \E n \in 0 .. MaxMapLen, is_mask \in BOOLEAN,
          local_proc_id \in 0 .. MaxTaskId :
          \E str \in [1 .. n -> MapChars] :
              gm = [pc |-> "call", is_mask |-> is_mask, str |-> str,
                    local_proc_id |-> local_proc_id, toks |-> <<>>, k |-> 1,
                    task_offset |-> 0, pass |-> 0,
                    usable_gres |-> NullBitmap]

NextMap == GetGresCall \/ GetGresToken \/ GetGresAgain

SpecMap == InitMap /\ [][NextMap]_vars

\* the lookup keeps running
SpecMapFair == SpecMap /\ WF_vars(NextMap)

\* C40: every lookup of a non-empty string comes to an end
C40_LookupEnds ==
    (gm.pc = "call" /\ Len(gm.str) > 0) ~> (gm.pc \in {"done", "abort"})
====
